---- MODULE Spec2Model ----
(***************************************************************************)
(* State-machine model of the editing core of UnicodeTextEditor            *)
(* (src/UnicodeTextEditor/juce_UnicodeTextEditor.cpp): the atom tokenizer, *)
(* the uniformly styled sections, the section list with its insert /       *)
(* remove / reinsert primitives, the caret and selection, and the undo     *)
(* history built from InsertAction and RemoveAction.                       *)
(*                                                                         *)
(* A text is a sequence of characters; a character is one of the strings   *)
(* in Alphabet.  juce::UndoManager is a library class: the operators whose *)
(* names start with "um" model the library calls made by the editor        *)
(* (perform, undo, redo, beginNewTransaction, clearUndoHistory,            *)
(* getNumActionsInCurrentTransaction) at their call sites.  Its cost cap   *)
(* (30000 units, at least 30 transactions kept) is far above anything the  *)
(* bounded histories below can cost, so eviction never triggers.           *)
(***************************************************************************)
EXTENDS Integers, Sequences, FiniteSets, TLC

\* ------------------------------------------------------------------------
\* Bounds of the model
\* ------------------------------------------------------------------------
\* longest document and largest number of actions kept in the undo history
\* when the editor is driven through its public operations; longest document
\* when the section list is driven through insert and remove
MaxLen == 2
MaxActions == 1
MaxDocLen == 3
\* longest text fragment handed to the tokenizer on its own
MaxFragment == 3
\* SpecLayout: the longest document, the widest and the highest viewport
MaxLayoutLen == 4
MaxTextWidth == 3
MaxTextHeight == 5
\* SpecNotify: the most messages posted and not handled yet
MaxMessages == 2
\* SpecKeys: the most actions in the undo history
MaxKeyActions == 2
\* SpecTyping: the longest document
MaxTypedLen == 102
MaxWordsLen == 4
MaxWordsWidth == 4
MaxMaskLen == 3
MaxMaskActions == 2
\* SpecColour: the longest document
MaxColourLen == 3
\* SpecRestrict: the longest document, the most actions in the history and
\* the greatest length an input restriction allows
MaxRestrictLen == 3
MaxRestrictActions == 2
MaxRestriction == 2
\* SpecClipboard: the longest document and the most actions in the history
MaxClipLen == 2
MaxClipActions == 4

\* ------------------------------------------------------------------------
\* Characters
\* ------------------------------------------------------------------------
CR == "CR"
LF == "LF"
SP == "SP"
NUL == "NUL"
Letters == {"a", "b"}
Alphabet == Letters \cup {SP, CR, LF}

Fonts == {1, 2}
defaultFont == 1
textColour == 1

\* juce::Justification: the flags that are set
topLeft == {"left", "top"}
topRight == {"right", "top"}
bottomLeft == {"left", "bottom"}
centredLeft == {"left", "verticallyCentred"}

notDragging == "notDragging"
draggingSelectionStart == "draggingSelectionStart"
draggingSelectionEnd == "draggingSelectionEnd"

maxActionsPerTransaction == 100
UInt16Mod == 65536

Min(a, b) == IF a < b THEN a ELSE b
Max(a, b) == IF a > b THEN a ELSE b
Abs(a) == IF a < 0 THEN 0 - a ELSE a

\* juce::CharacterFunctions::isWhitespace, on the model's alphabet
isWhitespace(c) == c \in {SP, CR, LF}

\* juce::String::operator[] and getLastCharacter: the null character when
\* the string has no such character
charAt(text, i) == IF i >= 1 /\ i <= Len(text) THEN text[i] ELSE NUL
getLastCharacter(text) == charAt(text, Len(text))

\* juce::String::substring (start, end) and substring (start), 0-based
substring(text, from, to) ==
    LET f == Max(0, from)
        t == Min(Len(text), to)
    IN IF f >= t THEN <<>> ELSE SubSeq(text, f + 1, t)

\* juce::Range<int> (start, end): the constructor stores end = max(start,end)
Range(s, e) == [start |-> s, end |-> Max(s, e)]
emptyRange(p) == [start |-> p, end |-> p]
between(a, b) == IF a < b THEN [start |-> a, end |-> b] ELSE [start |-> b, end |-> a]
isEmptyRange(r) == r.start = r.end
getLength(r) == r.end - r.start
\* juce::Range::setEnd: moves the start down with the end when needed
setEnd(r, newEnd) == [start |-> Min(r.start, newEnd), end |-> newEnd]

\* ------------------------------------------------------------------------
\* TextAtom and UniformTextSection
\* ------------------------------------------------------------------------
\* numChars is stored through a (juce::uint16) cast
TextAtom(text, n) == [atomText |-> text, numChars |-> n % UInt16Mod]

isNewLine(atom) == charAt(atom.atomText, 1) \in {CR, LF}

\* TextAtom::getText
atomGetText(atom, passwordChar) ==
    IF passwordChar = NUL THEN atom.atomText
    ELSE [n \in 1..Len(atom.atomText) |-> passwordChar]

\* juce::Font::getStringWidthFloat: each character is as wide as the font
\* says, but for '\r' and '\n', which have no width
getStringWidthFloat(f, text) ==
    f * Cardinality({n \in 1..Len(text) : text[n] \notin {CR, LF}})

\* the width that initialiseAtoms stores with an atom
atomWidth(section, atom, passwordChar) ==
    IF isNewLine(atom) THEN 0
    ELSE getStringWidthFloat(section.font, atomGetText(atom, passwordChar))

\* an atom with the width w stored with it
withWidth(atom, w) ==
    [atomText |-> atom.atomText, numChars |-> atom.numChars, width |-> w]

\* atom.width = font.getStringWidthFloat (atom.getText (passwordChar))
measured(atom, f, passwordChar) ==
    withWidth(atom, getStringWidthFloat(f, atomGetText(atom, passwordChar)))

\* the least position of a set of positions
firstOf(ps) == CHOOSE q \in ps : \A r \in ps : q <= r

\* the position from p on at which the scan of a whitespace atom stops: the
\* first one that is not whitespace or is '\r' or '\n', else the end
whitespaceEnd(text, p) ==
    LET stops == {q \in p..Len(text) :
                     ~ isWhitespace(text[q]) \/ text[q] = CR \/ text[q] = LF}
    IN IF p > Len(text) THEN p
       ELSE IF stops = {} THEN Len(text) + 1
       ELSE firstOf(stops)

\* the position from p on at which the scan of a word stops: the first
\* whitespace, else the end
wordEnd(text, p) ==
    LET stops == {q \in p..Len(text) : isWhitespace(text[q])}
    IN IF p > Len(text) THEN p
       ELSE IF stops = {} THEN Len(text) + 1
       ELSE firstOf(stops)

\* Variant of initialiseAtomsFrom that takes the text of a "\r\n" atom from
\* the '\r' on instead of from the '\n' on
RECURSIVE initialiseAtomsKeepingCR(_, _)
initialiseAtomsKeepingCR(text, p) ==
    IF p > Len(text) THEN <<>>
    ELSE IF isWhitespace(text[p]) /\ text[p] # CR /\ text[p] # LF
    THEN <<TextAtom(SubSeq(text, p, whitespaceEnd(text, p) - 1), whitespaceEnd(text, p) - p)>>
         \o initialiseAtomsKeepingCR(text, whitespaceEnd(text, p))
    ELSE IF text[p] = CR /\ charAt(text, p + 1) = LF
    THEN <<TextAtom(SubSeq(text, p, p), 1)>> \o initialiseAtomsKeepingCR(text, p + 2)
    ELSE IF text[p] \in {CR, LF}
    THEN <<TextAtom(SubSeq(text, p, p), 1)>> \o initialiseAtomsKeepingCR(text, p + 1)
    ELSE <<TextAtom(SubSeq(text, p, wordEnd(text, p) - 1), wordEnd(text, p) - p)>>
         \o initialiseAtomsKeepingCR(text, wordEnd(text, p))

\* UniformTextSection::initialiseAtoms, scanning from position p (1-based).
\* For "\r\n" the start pointer is advanced past the '\r' and one character
\* is taken: the atom's text is "\n" and it counts one character.
RECURSIVE initialiseAtomsFrom(_, _)
initialiseAtomsFrom(text, p) ==
    IF p > Len(text) THEN <<>>
    ELSE IF isWhitespace(text[p]) /\ text[p] # CR /\ text[p] # LF
    THEN LET q == whitespaceEnd(text, p)
         IN <<TextAtom(SubSeq(text, p, q - 1), q - p)>> \o initialiseAtomsFrom(text, q)
    ELSE IF text[p] = CR
    THEN IF charAt(text, p + 1) = LF
         THEN <<TextAtom(SubSeq(text, p + 1, p + 1), 1)>> \o initialiseAtomsFrom(text, p + 2)
         ELSE <<TextAtom(SubSeq(text, p, p), 1)>> \o initialiseAtomsFrom(text, p + 1)
    ELSE IF text[p] = LF
    THEN <<TextAtom(SubSeq(text, p, p), 1)>> \o initialiseAtomsFrom(text, p + 1)
    ELSE LET q == wordEnd(text, p)
         IN <<TextAtom(SubSeq(text, p, q - 1), q - p)>> \o initialiseAtomsFrom(text, q)

initialiseAtoms(text) == initialiseAtomsFrom(text, 1)

\* UniformTextSection constructor
UniformTextSection(text, f, col, passwordCharToUse) ==
    [font |-> f, colour |-> col, passwordChar |-> passwordCharToUse,
     atoms |-> LET parsed == initialiseAtoms(text)
               IN [n \in 1..Len(parsed) |->
                      withWidth(parsed[n],
                                atomWidth([font |-> f], parsed[n], passwordCharToUse))]]

\* Variant of append that never copies the first atom of the other section
appendSkippingFirst(s, other) ==
    IF other.atoms = <<>> THEN s ELSE [s EXCEPT !.atoms = s.atoms \o Tail(other.atoms)]

\* Variant of append that joins the last atom and the first atom of the other
\* section whatever their characters are
appendJoiningAlways(s, other) ==
    IF other.atoms = <<>> \/ s.atoms = <<>> THEN [s EXCEPT !.atoms = s.atoms \o other.atoms]
    ELSE [s EXCEPT !.atoms =
              SubSeq(s.atoms, 1, Len(s.atoms) - 1)
              \o <<measured(TextAtom(s.atoms[Len(s.atoms)].atomText \o other.atoms[1].atomText,
                                     s.atoms[Len(s.atoms)].numChars + other.atoms[1].numChars),
                            s.font, s.passwordChar)>>
              \o Tail(other.atoms)]

\* Variant of append that copies the atoms of the other section without ever
\* joining the last atom with the first one
appendNeverJoining(s, other) ==
    [s EXCEPT !.atoms = s.atoms \o other.atoms]

\* UniformTextSection::append
append(s, other) ==
    IF other.atoms = <<>> THEN s
    ELSE IF s.atoms # <<>>
            /\ ~ isWhitespace(getLastCharacter(s.atoms[Len(s.atoms)].atomText))
            /\ ~ isWhitespace(charAt(other.atoms[1].atomText, 1))
    THEN LET n == Len(s.atoms)
             lastAtom == s.atoms[n]
             first == other.atoms[1]
             merged == measured(TextAtom(lastAtom.atomText \o first.atomText,
                                         lastAtom.numChars + first.numChars),
                                s.font, s.passwordChar)
         IN [s EXCEPT !.atoms = SubSeq(s.atoms, 1, n - 1) \o <<merged>> \o Tail(other.atoms)]
    ELSE [s EXCEPT !.atoms = s.atoms \o other.atoms]

\* The loop of UniformTextSection::split: the atoms that stay and those that
\* move to the new section
RECURSIVE splitAtoms(_, _, _, _, _, _)
splitAtoms(atoms, i, index, indexToBreakAt, f, passwordChar) ==
    IF i > Len(atoms) THEN [left |-> atoms, right |-> <<>>]
    ELSE LET atom == atoms[i]
             nextIndex == index + atom.numChars
         IN IF index = indexToBreakAt
            THEN [left |-> SubSeq(atoms, 1, i - 1), right |-> SubSeq(atoms, i, Len(atoms))]
            ELSE IF indexToBreakAt >= index /\ indexToBreakAt < nextIndex
            THEN LET secondText == substring(atom.atomText, indexToBreakAt - index, Len(atom.atomText))
                     secondAtom == measured(TextAtom(secondText, Len(secondText)),
                                            f, passwordChar)
                     firstAtom == measured(TextAtom(substring(atom.atomText, 0,
                                                              indexToBreakAt - index),
                                                    indexToBreakAt - index),
                                           f, passwordChar)
                 IN [left |-> SubSeq(atoms, 1, i - 1) \o <<firstAtom>>,
                     right |-> <<secondAtom>> \o SubSeq(atoms, i + 1, Len(atoms))]
            ELSE splitAtoms(atoms, i + 1, nextIndex, indexToBreakAt, f, passwordChar)

\* UniformTextSection::split: <<what remains of s, the new section>>
split(s, indexToBreakAt) ==
    LET halves(r) == <<[s EXCEPT !.atoms = r.left], [s EXCEPT !.atoms = r.right]>>
    IN halves(splitAtoms(s.atoms, 1, 0, indexToBreakAt, s.font, s.passwordChar))

RECURSIVE sumNumChars(_)
sumNumChars(atoms) ==
    IF atoms = <<>> THEN 0 ELSE atoms[1].numChars + sumNumChars(Tail(atoms))

\* UniformTextSection::getTotalLength
getTotalLength(s) == sumNumChars(s.atoms)

RECURSIVE concatAtomText(_)
concatAtomText(atoms) ==
    IF atoms = <<>> THEN <<>> ELSE atoms[1].atomText \o concatAtomText(Tail(atoms))

\* UniformTextSection::appendAllText
appendAllText(s) == concatAtomText(s.atoms)

\* UniformTextSection::setFont
setSectionFont(s, newFont, passwordCharToUse) ==
    IF s.font # newFont \/ s.passwordChar # passwordCharToUse
    THEN [s EXCEPT !.font = newFont,
                   !.passwordChar = passwordCharToUse,
                   !.atoms = [n \in 1..Len(s.atoms) |->
                                 measured(s.atoms[n], newFont, passwordCharToUse)]]
    ELSE s

\* ------------------------------------------------------------------------
\* The section list of the editor.
\* An editor value ed is a record of the editor's fields:
\*   sections, totalNumChars, caretPosition, selection, dragType,
\*   currentFont, multiline, readOnly, and the undo manager's
\*   transactions, nextIndex and umNewTransaction.
\* Positions in sequences are 1-based, character indices are 0-based as in
\* the source.
\* ------------------------------------------------------------------------
RECURSIVE sumSectionLengths(_)
sumSectionLengths(secs) ==
    IF secs = <<>> THEN 0 ELSE getTotalLength(secs[1]) + sumSectionLengths(Tail(secs))

RECURSIVE concatSectionText(_)
concatSectionText(secs) ==
    IF secs = <<>> THEN <<>> ELSE appendAllText(secs[1]) \o concatSectionText(Tail(secs))

\* UnicodeTextEditor::getText
getText(ed) == concatSectionText(ed.sections)

\* UnicodeTextEditor::getTotalNumChars: the value it returns ...
totalNumCharsValue(ed) ==
    IF ed.totalNumChars < 0 THEN sumSectionLengths(ed.sections) ELSE ed.totalNumChars

\* ... and the cache it leaves behind
getTotalNumChars(ed) == [ed EXCEPT !.totalNumChars = totalNumCharsValue(ed)]

\* UniformTextSection::appendSubstring
RECURSIVE appendSubstringFrom(_, _, _, _)
appendSubstringFrom(atoms, i, index, range) ==
    IF i > Len(atoms) THEN <<>>
    ELSE LET atom == atoms[i]
             nextIndex == index + atom.numChars
         IN IF range.start < nextIndex
            THEN IF range.end <= index THEN <<>>
                 ELSE LET r == Range(Max(range.start - index, 0),
                                     Min(range.end - index, atom.numChars))
                      IN (IF isEmptyRange(r) THEN <<>>
                          ELSE substring(atom.atomText, r.start, r.end))
                         \o appendSubstringFrom(atoms, i + 1, nextIndex, range)
            ELSE appendSubstringFrom(atoms, i + 1, nextIndex, range)

\* appendSubstring that writes the whole text of the section
appendSubstringWhole(s, range) == concatSectionText(<<s>>)

appendSubstring(s, range) == appendSubstringFrom(s.atoms, 1, 0, range)

\* UnicodeTextEditor::getTextInRange
RECURSIVE getTextInRangeFrom(_, _, _, _)
getTextInRangeFrom(secs, i, index, range) ==
    IF i > Len(secs) THEN <<>>
    ELSE LET nextIndex == index + getTotalLength(secs[i])
         IN IF range.start < nextIndex
            THEN IF range.end <= index THEN <<>>
                 ELSE appendSubstring(secs[i], [start |-> range.start - index,
                                                end |-> range.end - index])
                      \o getTextInRangeFrom(secs, i + 1, nextIndex, range)
            ELSE getTextInRangeFrom(secs, i + 1, nextIndex, range)

getTextInRange(ed, range) ==
    IF isEmptyRange(range) THEN <<>> ELSE getTextInRangeFrom(ed.sections, 1, 0, range)

\* UnicodeTextEditor::repaintText: its only effect on the modelled state is
\* the read of getTotalNumChars
repaintText(ed, range) == IF isEmptyRange(range) THEN ed ELSE getTotalNumChars(ed)

\* moveCaret without the upper limit
moveCaretBelowOnly(ed, newCaretPos) ==
    IF newCaretPos < 0 THEN [ed EXCEPT !.caretPosition = 0]
    ELSE [getTotalNumChars(ed) EXCEPT !.caretPosition = newCaretPos]

\* UnicodeTextEditor::moveCaret
moveCaret(ed, newCaretPos) ==
    LET placed(ed1, pos) ==
            IF pos # ed1.caretPosition THEN [ed1 EXCEPT !.caretPosition = pos] ELSE ed1
    IN IF newCaretPos < 0 THEN placed(ed, 0)
       ELSE placed(getTotalNumChars(ed), Min(newCaretPos, totalNumCharsValue(ed)))

\* UnicodeTextEditor::setSelection
setSelection(ed, newSelection) == [ed EXCEPT !.selection = newSelection]

unionWith(r1, r2) == [start |-> Min(r1.start, r2.start), end |-> Max(r1.end, r2.end)]

\* UnicodeTextEditor::moveCaretTo
moveCaretTo(ed, newPosition, isSelecting) ==
    LET \* the drag type after the first test, for the caret and old selection
        firstDrag(drag, caret, oldSelection) ==
            IF drag = notDragging
            THEN IF Abs(caret - oldSelection.start) < Abs(caret - oldSelection.end)
                 THEN draggingSelectionStart
                 ELSE draggingSelectionEnd
            ELSE drag
        dragged(ed1, drag1, caret, oldSelection) ==
            IF drag1 = draggingSelectionStart
            THEN [ed1 EXCEPT !.dragType = IF caret >= oldSelection.end
                                          THEN draggingSelectionEnd ELSE drag1,
                             !.selection = between(caret, oldSelection.end)]
            ELSE [ed1 EXCEPT !.dragType = IF caret < oldSelection.start
                                          THEN draggingSelectionStart ELSE drag1,
                             !.selection = between(caret, oldSelection.start)]
        repainted(ed2, oldSelection) ==
            repaintText(ed2, unionWith(ed2.selection, oldSelection))
        selecting(ed1) ==
            repainted(dragged(ed1,
                              firstDrag(ed1.dragType, ed1.caretPosition, ed1.selection),
                              ed1.caretPosition, ed1.selection),
                      ed1.selection)
        deselected(ed2) == setSelection(ed2, emptyRange(ed2.caretPosition))
    IN IF isSelecting
       THEN selecting(moveCaret(ed, newPosition))
       ELSE deselected(moveCaret(repaintText([ed EXCEPT !.dragType = notDragging],
                                             ed.selection),
                                 newPosition))

InsertAt(seq, i, elems) == SubSeq(seq, 1, i - 1) \o elems \o SubSeq(seq, i, Len(seq))
RemoveAt(seq, i) == SubSeq(seq, 1, i - 1) \o SubSeq(seq, i + 1, Len(seq))

\* UnicodeTextEditor::splitSection
splitSection(secs, sectionIndex, charToSplitAt) ==
    SubSeq(secs, 1, sectionIndex - 1) \o split(secs[sectionIndex], charToSplitAt)
    \o SubSeq(secs, sectionIndex + 1, Len(secs))

\* Variant of coalesceFrom that goes on to the next section after a merge
\* instead of looking at the merged section again
RECURSIVE coalesceFromWithoutRetry(_, _)
coalesceFromWithoutRetry(secs, i) ==
    IF i > Len(secs) - 1 THEN secs
    ELSE IF secs[i].font = secs[i + 1].font /\ secs[i].colour = secs[i + 1].colour
    THEN coalesceFromWithoutRetry(SubSeq(secs, 1, i - 1) \o <<append(secs[i], secs[i + 1])>>
                                    \o SubSeq(secs, i + 2, Len(secs)), i + 1)
    ELSE coalesceFromWithoutRetry(secs, i + 1)

\* UnicodeTextEditor::coalesceSimilarSections, from position i on
RECURSIVE coalesceFrom(_, _)
coalesceFrom(secs, i) ==
    IF i > Len(secs) - 1 THEN secs
    ELSE LET s1 == secs[i]
             s2 == secs[i + 1]
         IN IF s1.font = s2.font /\ s1.colour = s2.colour
            THEN coalesceFrom(SubSeq(secs, 1, i - 1) \o <<append(s1, s2)>>
                                \o SubSeq(secs, i + 2, Len(secs)), i)
            ELSE coalesceFrom(secs, i + 1)

coalesceSimilarSections(secs) == coalesceFrom(secs, 1)

\* Variant of insertLoop that puts the new section after the section that
\* starts at insertIndex instead of before it
RECURSIVE insertLoopAfter(_, _, _, _, _, _)
insertLoopAfter(secs, i, index, nextIndex, insertIndex, newSection) ==
    IF i > Len(secs) THEN [sections |-> secs, nextIndex |-> nextIndex]
    ELSE LET ni == index + getTotalLength(secs[i])
         IN IF insertIndex = index
            THEN [sections |-> InsertAt(secs, i + 1, <<newSection>>), nextIndex |-> ni]
            ELSE IF insertIndex > index /\ insertIndex < ni
            THEN [sections |-> InsertAt(splitSection(secs, i, insertIndex - index),
                                        i + 1, <<newSection>>),
                  nextIndex |-> ni]
            ELSE insertLoopAfter(secs, i + 1, ni, ni, insertIndex, newSection)

\* The section loop of UnicodeTextEditor::insert
RECURSIVE insertLoop(_, _, _, _, _, _)
insertLoop(secs, i, index, nextIndex, insertIndex, newSection) ==
    IF i > Len(secs) THEN [sections |-> secs, nextIndex |-> nextIndex]
    ELSE LET ni == index + getTotalLength(secs[i])
         IN IF insertIndex = index
            THEN [sections |-> InsertAt(secs, i, <<newSection>>), nextIndex |-> ni]
            ELSE IF insertIndex > index /\ insertIndex < ni
            THEN [sections |-> InsertAt(splitSection(secs, i, insertIndex - index),
                                        i + 1, <<newSection>>),
                  nextIndex |-> ni]
            ELSE insertLoop(secs, i + 1, ni, ni, insertIndex, newSection)

\* Variant of insertDirect that leaves the cached total as it is
insertDirectKeepsCache(ed, text, insertIndex, font, colour, caretPositionToMoveTo) ==
    LET repainted(e) ==
            repaintText(getTotalNumChars(e), Range(insertIndex, totalNumCharsValue(e)))
        appended(r, newSection) ==
            IF r.nextIndex = insertIndex
            THEN Append(r.sections, newSection) ELSE r.sections
        inserted(secs, newSection) ==
            appended(insertLoop(secs, 1, 0, 0, insertIndex, newSection), newSection)
        spliced(ed0) ==
            [ed0 EXCEPT !.sections = coalesceSimilarSections(
                            inserted(ed0.sections, UniformTextSection(text, font, colour,
                                                                 ed0.passwordCharacter)))]
    IN repainted(moveCaretTo(spliced(repainted(ed)), caretPositionToMoveTo, FALSE))

\* UnicodeTextEditor::insert with um == nullptr
insertDirect(ed, text, insertIndex, font, colour, caretPositionToMoveTo) ==
    LET repainted(e) ==
            repaintText(getTotalNumChars(e), Range(insertIndex, totalNumCharsValue(e)))
        appended(r, newSection) ==
            IF r.nextIndex = insertIndex
            THEN Append(r.sections, newSection) ELSE r.sections
        inserted(secs, newSection) ==
            appended(insertLoop(secs, 1, 0, 0, insertIndex, newSection), newSection)
        spliced(ed0) ==
            [ed0 EXCEPT !.sections = coalesceSimilarSections(
                            inserted(ed0.sections, UniformTextSection(text, font, colour,
                                                                 ed0.passwordCharacter))),
                        !.totalNumChars = -1]
    IN repainted(moveCaretTo(spliced(repainted(ed)), caretPositionToMoveTo, FALSE))

\* The section loop of UnicodeTextEditor::reinsert
RECURSIVE reinsertLoop(_, _, _, _, _, _)
reinsertLoop(secs, i, index, nextIndex, insertIndex, sectionsToInsert) ==
    IF i > Len(secs) THEN [sections |-> secs, nextIndex |-> nextIndex]
    ELSE LET ni == index + getTotalLength(secs[i])
         IN IF insertIndex = index
            THEN [sections |-> InsertAt(secs, i, sectionsToInsert), nextIndex |-> ni]
            ELSE IF insertIndex > index /\ insertIndex < ni
            THEN [sections |-> InsertAt(splitSection(secs, i, insertIndex - index),
                                        i + 1, sectionsToInsert),
                  nextIndex |-> ni]
            ELSE reinsertLoop(secs, i + 1, ni, ni, insertIndex, sectionsToInsert)

\* UnicodeTextEditor::reinsert
reinsert(ed, insertIndex, sectionsToInsert) ==
    LET appended(r) ==
            IF r.nextIndex = insertIndex
            THEN r.sections \o sectionsToInsert ELSE r.sections
        secs == appended(reinsertLoop(ed.sections, 1, 0, 0, insertIndex, sectionsToInsert))
    IN [ed EXCEPT !.sections = coalesceSimilarSections(secs),
                  !.totalNumChars = -1]

\* First loop of UnicodeTextEditor::remove: split the sections at both ends
\* of the range
RECURSIVE removeSplitLoop(_, _, _, _)
removeSplitLoop(secs, i, index, range) ==
    IF i > Len(secs) THEN secs
    ELSE LET nextIndex == index + getTotalLength(secs[i])
         IN IF range.start > index /\ range.start < nextIndex
            THEN removeSplitLoop(splitSection(secs, i, range.start - index), i, index, range)
            ELSE IF range.end > index /\ range.end < nextIndex
            THEN removeSplitLoop(splitSection(secs, i, range.end - index), i, index, range)
            ELSE IF nextIndex > range.end THEN secs
            ELSE removeSplitLoop(secs, i + 1, nextIndex, range)

\* Variant of removedSectionsFrom that misses a section starting exactly at
\* the start of the range
RECURSIVE removedSectionsAfterStart(_, _, _, _)
removedSectionsAfterStart(secs, i, index, range) ==
    IF i > Len(secs) \/ range.end <= range.start THEN <<>>
    ELSE LET nextIndex == index + getTotalLength(secs[i])
         IN (IF range.start < index /\ range.end >= nextIndex THEN <<secs[i]>> ELSE <<>>)
            \o removedSectionsAfterStart(secs, i + 1, nextIndex, range)

\* The loop of UnicodeTextEditor::remove that copies the sections lying
\* inside the range for the RemoveAction
RECURSIVE removedSectionsFrom(_, _, _, _)
removedSectionsFrom(secs, i, index, range) ==
    IF i > Len(secs) \/ range.end <= range.start THEN <<>>
    ELSE LET nextIndex == index + getTotalLength(secs[i])
         IN (IF range.start <= index /\ range.end >= nextIndex THEN <<secs[i]>> ELSE <<>>)
            \o removedSectionsFrom(secs, i + 1, nextIndex, range)

\* Variant of removeLoop that stops after the first section it deletes
RECURSIVE removeLoopFirstOnly(_, _, _, _)
removeLoopFirstOnly(secs, i, index, remainingRange) ==
    IF i > Len(secs) THEN secs
    ELSE LET nextIndex == index + getTotalLength(secs[i])
         IN IF remainingRange.start <= index /\ remainingRange.end >= nextIndex
            THEN RemoveAt(secs, i)
            ELSE removeLoopFirstOnly(secs, i + 1, nextIndex, remainingRange)

\* The loop of UnicodeTextEditor::remove that deletes the sections lying
\* inside the remaining range
RECURSIVE removeLoop(_, _, _, _)
removeLoop(secs, i, index, remainingRange) ==
    IF i > Len(secs) THEN secs
    ELSE LET nextIndex == index + getTotalLength(secs[i])
         IN IF remainingRange.start <= index /\ remainingRange.end >= nextIndex
            THEN LET rest == setEnd(remainingRange, remainingRange.end - (nextIndex - index))
                 IN IF isEmptyRange(rest) THEN RemoveAt(secs, i)
                    ELSE removeLoop(RemoveAt(secs, i), i, index, rest)
            ELSE removeLoop(secs, i + 1, nextIndex, remainingRange)

\* UnicodeTextEditor::remove with um == nullptr
removeDirect(ed, range, caretPositionToMoveTo) ==
    IF isEmptyRange(range) THEN ed
    ELSE LET split1 == removeSplitLoop(ed.sections, 1, 0, range)
             secs == removeLoop(split1, 1, 0, range)
             ed1 == [ed EXCEPT !.sections = coalesceSimilarSections(secs),
                               !.totalNumChars = -1]
             repainted(ed2) ==
                 repaintText(getTotalNumChars(ed2),
                             Range(range.start, totalNumCharsValue(ed2)))
         IN repainted(moveCaretTo(ed1, caretPositionToMoveTo, FALSE))

\* ------------------------------------------------------------------------
\* Undo actions and the undo manager
\* ------------------------------------------------------------------------
\* UnicodeTextEditor::InsertAction (constructor)
InsertAction(newText, insertPos, newFont, newColour, oldCaret, newCaret) ==
    [type |-> "Insert", text |-> newText, insertIndex |-> insertPos,
     oldCaretPos |-> oldCaret, newCaretPos |-> newCaret,
     font |-> newFont, colour |-> newColour]

\* UnicodeTextEditor::RemoveAction (constructor)
RemoveAction(rangeToRemove, oldCaret, newCaret, oldSections) ==
    [type |-> "Remove", range |-> rangeToRemove,
     oldCaretPos |-> oldCaret, newCaretPos |-> newCaret,
     removedSections |-> oldSections]

\* InsertAction::perform
InsertActionPerform(ed, a) ==
    insertDirect(ed, a.text, a.insertIndex, a.font, a.colour, a.newCaretPos)

\* InsertAction::undo that leaves the caret where the insert had put it
InsertActionUndoKeepsCaret(ed, a) ==
    removeDirect(ed, Range(a.insertIndex, a.insertIndex + Len(a.text)), a.newCaretPos)

\* InsertAction::undo: the range is computed from the length of the text
\* that was handed to the action
InsertActionUndo(ed, a) ==
    removeDirect(ed, Range(a.insertIndex, a.insertIndex + Len(a.text)), a.oldCaretPos)

\* RemoveAction::perform
RemoveActionPerform(ed, a) == removeDirect(ed, a.range, a.newCaretPos)

\* RemoveAction::undo
RemoveActionUndo(ed, a) ==
    moveCaretTo(reinsert(ed, a.range.start, a.removedSections), a.oldCaretPos, FALSE)

actionPerform(ed, a) ==
    IF a.type = "Insert" THEN InsertActionPerform(ed, a) ELSE RemoveActionPerform(ed, a)

actionUndo(ed, a) ==
    IF a.type = "Insert" THEN InsertActionUndo(ed, a) ELSE RemoveActionUndo(ed, a)

\* juce::UndoManager: the current and the next action set (nextIndex counts
\* the transactions that are performed)
umCanUndo(ed) == ed.nextIndex >= 1 /\ ed.nextIndex <= Len(ed.transactions)
umCanRedo(ed) == ed.nextIndex + 1 <= Len(ed.transactions)

\* juce::UndoManager::getNumActionsInCurrentTransaction
umGetNumActionsInCurrentTransaction(ed) ==
    IF ~ ed.umNewTransaction /\ umCanUndo(ed)
    THEN Len(ed.transactions[ed.nextIndex])
    ELSE 0

\* juce::UndoManager::beginNewTransaction
umBeginNewTransaction(ed) == [ed EXCEPT !.umNewTransaction = TRUE]

\* juce::UndoManager::clearUndoHistory
umClearUndoHistory(ed) == [ed EXCEPT !.transactions = <<>>, !.nextIndex = 0]

\* juce::UndoManager::perform: perform the action, add it to the current
\* transaction or open a new one, and drop the transactions that could have
\* been redone
umPerform(ed, a) ==
    LET kept(ed1) == SubSeq(ed1.transactions, 1, ed1.nextIndex)
        recorded(ed1) ==
            IF umCanUndo(ed1) /\ ~ ed1.umNewTransaction
            THEN [ed1 EXCEPT !.transactions =
                                 [kept(ed1) EXCEPT ![ed1.nextIndex] = Append(@, a)],
                             !.umNewTransaction = FALSE]
            ELSE [ed1 EXCEPT !.transactions = Append(kept(ed1), <<a>>),
                             !.nextIndex = ed1.nextIndex + 1,
                             !.umNewTransaction = FALSE]
    IN recorded(actionPerform(ed, a))

\* juce::UndoManager::ActionSet::undo: one action is undone before the one
\* before it is looked at (nextIndex is never negative)
RECURSIVE undoActionsFrom(_, _, _)
undoActionsFrom(ed, actions, i) ==
    IF i < 1 \/ ed.nextIndex < 0 THEN ed
    ELSE undoActionsFrom(actionUndo(ed, actions[i]), actions, i - 1)

RECURSIVE performActionsFrom(_, _, _)
performActionsFrom(ed, actions, i) ==
    IF i > Len(actions) \/ ed.nextIndex < 0 THEN ed
    ELSE performActionsFrom(actionPerform(ed, actions[i]), actions, i + 1)

\* juce::UndoManager::undo: the actions of the current set, last one first
umUndo(ed) ==
    IF umCanUndo(ed)
    THEN LET actions == ed.transactions[ed.nextIndex]
             ed1 == undoActionsFrom(ed, actions, Len(actions))
         IN [ed |-> umBeginNewTransaction([ed1 EXCEPT !.nextIndex = ed.nextIndex - 1]),
             ret |-> TRUE]
    ELSE [ed |-> ed, ret |-> FALSE]

\* juce::UndoManager::redo: the actions of the next set, first one first
umRedo(ed) ==
    IF umCanRedo(ed)
    THEN LET actions == ed.transactions[ed.nextIndex + 1]
             ed1 == performActionsFrom(ed, actions, 1)
         IN [ed |-> umBeginNewTransaction([ed1 EXCEPT !.nextIndex = ed.nextIndex + 1]),
             ret |-> TRUE]
    ELSE [ed |-> ed, ret |-> FALSE]

\* ------------------------------------------------------------------------
\* Operations of the editor
\* ------------------------------------------------------------------------
\* newTransaction that leaves the open transaction open
newTransactionKeepsOpen(ed) == ed

\* UnicodeTextEditor::newTransaction (the time stamp is not modelled)
newTransaction(ed) == umBeginNewTransaction(ed)

\* UnicodeTextEditor::getUndoManager: is there an undo manager to record in
hasUndoManager(ed) == ~ ed.readOnly

\* Variant of insert without the early return on an empty text
insertWithoutEmptyCheck(ed, text, insertIndex, font, colour, useUm, caretPositionToMoveTo) ==
    IF useUm
    THEN umPerform(IF umGetNumActionsInCurrentTransaction(ed) > maxActionsPerTransaction
                   THEN newTransaction(ed) ELSE ed,
                   InsertAction(text, insertIndex, font, colour,
                                ed.caretPosition, caretPositionToMoveTo))
    ELSE insertDirect(ed, text, insertIndex, font, colour, caretPositionToMoveTo)

\* UnicodeTextEditor::insert; useUm says whether um != nullptr
insert(ed, text, insertIndex, font, colour, useUm, caretPositionToMoveTo) ==
    IF text = <<>> THEN ed
    ELSE IF useUm
    THEN umPerform(IF umGetNumActionsInCurrentTransaction(ed) > maxActionsPerTransaction
                   THEN newTransaction(ed) ELSE ed,
                   InsertAction(text, insertIndex, font, colour,
                                ed.caretPosition, caretPositionToMoveTo))
    ELSE insertDirect(ed, text, insertIndex, font, colour, caretPositionToMoveTo)

\* UnicodeTextEditor::remove; useUm says whether um != nullptr
remove(ed, range, useUm, caretPositionToMoveTo) ==
    IF isEmptyRange(range) THEN ed
    ELSE IF useUm
    THEN LET recorded(ed0) ==
                 umPerform(IF umGetNumActionsInCurrentTransaction(ed0)
                                  > maxActionsPerTransaction
                           THEN newTransaction(ed0) ELSE ed0,
                           RemoveAction(range, ed.caretPosition, caretPositionToMoveTo,
                                        removedSectionsFrom(ed0.sections, 1, 0, range)))
         IN recorded([ed EXCEPT !.sections = removeSplitLoop(ed.sections, 1, 0, range)])
    ELSE removeDirect(ed, range, caretPositionToMoveTo)

\* UnicodeTextEditor::clearInternal
clearInternal(ed, useUm) ==
    remove(getTotalNumChars(ed), Range(0, totalNumCharsValue(ed)), useUm, ed.caretPosition)

\* juce::String::replace ("\r\n", "\n"): occurrences are found left to right
\* and the search goes on after each replacement
RECURSIVE replaceCRLFFrom(_, _)
replaceCRLFFrom(text, p) ==
    IF p > Len(text) THEN <<>>
    ELSE IF text[p] = CR /\ charAt(text, p + 1) = LF
    THEN <<LF>> \o replaceCRLFFrom(text, p + 2)
    ELSE <<text[p]>> \o replaceCRLFFrom(text, p + 1)

\* juce::String::replaceCharacters ("\r\n", "  ")
replaceCharacters(text) ==
    [i \in 1..Len(text) |-> IF text[i] \in {CR, LF} THEN SP ELSE text[i]]

\* UnicodeTextEditor::textChanged
textChanged(ed) ==
    IF ed.listeners # 0 THEN [ed EXCEPT !.commandMessages = @ + 1] ELSE ed

\* UnicodeTextEditor::handleCommandMessage for textChangeMessageId: the
\* listeners are called, with the editor as their only argument
handleCommandMessage(ed) == [ed EXCEPT !.commandMessages = @ - 1]

\* Listener list and onTextChange: the host installs or takes away its
\* listener
setListeners(ed, n) == [ed EXCEPT !.listeners = n]

\* UnicodeTextEditor::LengthAndCharacterRestriction (constructor); chars is
\* empty where every character is allowed
LengthAndCharacterRestriction(maxLen, chars) ==
    [allowedCharacters |-> chars, maxLength |-> maxLen]

\* juce::String::retainCharacters
retainCharacters(t, chars) == SelectSeq(t, LAMBDA c : \E k \in 1..Len(chars) : chars[k] = c)

\* LengthAndCharacterRestriction::filterNewText: the text it lets through
filterNewText(ed, filter, newInput) ==
    LET t == IF filter.allowedCharacters # <<>>
             THEN retainCharacters(newInput, filter.allowedCharacters)
             ELSE newInput
    IN IF filter.maxLength > 0
       THEN substring(t, 0, filter.maxLength
                                - (totalNumCharsValue(ed) - getLength(ed.selection)))
       ELSE t

\* UnicodeTextEditor::setInputFilter
setInputFilter(ed, newFilter) == [ed EXCEPT !.inputFilter = newFilter]

\* UnicodeTextEditor::setInputRestrictions
setInputRestrictions(ed, maxLen, chars) ==
    setInputFilter(ed, <<LengthAndCharacterRestriction(maxLen, chars)>>)

\* UnicodeTextEditor::insertTextAtCaret
insertTextAtCaret(ed, t) ==
    LET insertIndex == ed.selection.start
        counted == IF ed.inputFilter # <<>> /\ ed.inputFilter[1].maxLength > 0
                   THEN getTotalNumChars(ed) ELSE ed
        inserted(ed1, newText, newCaretPos) ==
            insert(ed1, newText, insertIndex, ed1.currentFont, textColour,
                   hasUndoManager(ed1), newCaretPos)
        replaced(newText, newCaretPos) ==
            inserted(remove(counted, ed.selection, hasUndoManager(ed),
                            IF newText # <<>> THEN newCaretPos - 1 ELSE newCaretPos),
                     newText, newCaretPos)
        filtered(newText) == replaced(newText, insertIndex + Len(newText))
        allowed == IF ed.inputFilter # <<>>
                   THEN filterNewText(ed, ed.inputFilter[1], t) ELSE t
    IN textChanged(filtered(IF ed.multiline THEN replaceCRLFFrom(allowed, 1)
                            ELSE replaceCharacters(allowed)))

\* UnicodeTextEditor::paste, with the clipboard's text as its input
paste(ed, clip) ==
    IF ~ ed.readOnly /\ clip # <<>> THEN insertTextAtCaret(ed, clip) ELSE ed

\* UnicodeTextEditor::getHighlightedText
getHighlightedText(ed) == getTextInRange(ed, ed.selection)

\* copy that does not look at the password character
copyOfMaskedText(ed) ==
    IF getHighlightedText(ed) # <<>>
    THEN [ed EXCEPT !.clipboard = getHighlightedText(ed)]
    ELSE ed

\* UnicodeTextEditor::copy: the selected text goes to the system clipboard
\* unless the text is masked
copy(ed) ==
    IF ed.passwordCharacter = NUL /\ getHighlightedText(ed) # <<>>
    THEN [ed EXCEPT !.clipboard = getHighlightedText(ed)]
    ELSE ed

\* UnicodeTextEditor::cut
cut(ed) ==
    IF ~ ed.readOnly
    THEN insertTextAtCaret(moveCaret(ed, ed.selection.end), <<>>)
    ELSE ed

\* TextEditorDefs::getCharacterCategory, on the model's alphabet
getCharacterCategory(c) == IF c \in Letters THEN 2 ELSE IF isWhitespace(c) THEN 0 ELSE 1

RECURSIVE skipWhitespaceBefore(_, _)
skipWhitespaceBefore(t, i) ==
    IF i > 0 /\ isWhitespace(charAt(t, i)) THEN skipWhitespaceBefore(t, i - 1) ELSE i

RECURSIVE skipCategoryBefore(_, _, _)
skipCategoryBefore(t, i, type) ==
    IF i > 0 /\ type = getCharacterCategory(charAt(t, i))
    THEN skipCategoryBefore(t, i - 1, type) ELSE i

wordBreakBuffer == 512

\* UnicodeTextEditor::findWordBreakBefore
findWordBreakBefore(ed, position) ==
    IF position <= 0 THEN 0
    ELSE LET startOfBuffer == Max(0, position - wordBreakBuffer)
             afterCategory(t, i) ==
                 IF i > 0
                 THEN skipCategoryBefore(t, i, getCharacterCategory(charAt(t, i)))
                 ELSE i
             afterWhitespace(t) ==
                 afterCategory(t, skipWhitespaceBefore(t, position - startOfBuffer))
         IN startOfBuffer
            + afterWhitespace(getTextInRange(ed, Range(startOfBuffer, position)))

\* UnicodeTextEditor::deleteBackwards
deleteBackwards(ed, moveInWholeWordSteps) ==
    cut(IF moveInWholeWordSteps
        THEN moveCaretTo(ed, findWordBreakBefore(ed, ed.caretPosition), TRUE)
        ELSE IF isEmptyRange(ed.selection) /\ ed.selection.start > 0
        THEN setSelection(ed, Range(ed.selection.end - 1, ed.selection.end))
        ELSE ed)

\* UnicodeTextEditor::deleteForwards
deleteForwards(ed) ==
    cut(IF isEmptyRange(ed.selection)
        THEN IF ed.selection.start < totalNumCharsValue(ed)
             THEN setSelection(getTotalNumChars(ed),
                               Range(ed.selection.start, ed.selection.start + 1))
             ELSE getTotalNumChars(ed)
        ELSE ed)

\* Variant of undoOrRedo that reports success whenever the editor is not
\* read-only
undoOrRedoReportsTrue(ed, shouldUndo) ==
    IF ~ ed.readOnly
    THEN [ed |-> textChanged((IF shouldUndo THEN umUndo(newTransaction(ed))
                              ELSE umRedo(newTransaction(ed))).ed),
          ret |-> TRUE]
    ELSE [ed |-> ed, ret |-> FALSE]

\* UnicodeTextEditor::undoOrRedo
undoOrRedo(ed, shouldUndo) ==
    LET done(r) == IF r.ret THEN [ed |-> textChanged(r.ed), ret |-> TRUE] ELSE r
    IN IF ~ ed.readOnly
       THEN done(IF shouldUndo THEN umUndo(newTransaction(ed))
                 ELSE umRedo(newTransaction(ed)))
       ELSE [ed |-> ed, ret |-> FALSE]

\* UnicodeTextEditor::undo and UnicodeTextEditor::redo
undo(ed) == undoOrRedo(ed, TRUE)
redo(ed) == undoOrRedo(ed, FALSE)

\* UnicodeTextEditor::clear
clear(ed) == umClearUndoHistory(clearInternal(ed, FALSE))

\* UnicodeTextEditor::setText
setTextSending(ed, newText, sendTextChangeMessage) ==
    LET oldCursorPos == ed.caretPosition
        cursorWasAtEnd == oldCursorPos >= totalNumCharsValue(ed)
        inserted(ed1) ==
            insert(ed1, newText, 0, ed1.currentFont, textColour, FALSE, ed1.caretPosition)
        caretRestored(ed2) ==
            IF cursorWasAtEnd /\ ~ ed2.multiline
            THEN moveCaretTo(getTotalNumChars(ed2), totalNumCharsValue(ed2), FALSE)
            ELSE moveCaretTo(ed2, oldCursorPos, FALSE)
        sent(ed3) == IF sendTextChangeMessage THEN textChanged(ed3) ELSE ed3
    IN IF Len(newText) # totalNumCharsValue(ed) \/ getText(ed) # newText
       THEN umClearUndoHistory(
                sent(caretRestored(inserted(clearInternal(getTotalNumChars(ed), FALSE)))))
       ELSE getTotalNumChars(ed)

\* setText (newText), with sendTextChangeMessage left at true
setText(ed, newText) == setTextSending(ed, newText, TRUE)

\* UnicodeTextEditor::setFont
setFont(ed, newFont) == [ed EXCEPT !.currentFont = newFont]

\* UnicodeTextEditor::applyFontToAllText
applyFontToAllText(ed, newFont, changeCurrentFont) ==
    LET restyled == [i \in 1..Len(ed.sections) |->
                        [setSectionFont(ed.sections[i], newFont, ed.passwordCharacter)
                            EXCEPT !.colour = textColour]]
    IN [ed EXCEPT !.currentFont = IF changeCurrentFont THEN newFont ELSE @,
                  !.sections = coalesceSimilarSections(restyled)]

\* UnicodeTextEditor::applyColourToAllText (newColour, false): every section
\* takes the colour, the text colour of the editor stays what it is
applyColourToAllText(ed, newColour) ==
    [ed EXCEPT !.sections = [i \in 1..Len(ed.sections) |->
                                [ed.sections[i] EXCEPT !.colour = newColour]]]

\* UnicodeTextEditor::setCaretPosition
setCaretPosition(ed, newIndex) == moveCaretTo(ed, newIndex, FALSE)

\* UnicodeTextEditor::selectAll
selectAll(ed) ==
    moveCaretTo(moveCaretTo(getTotalNumChars(newTransaction(ed)),
                            totalNumCharsValue(ed), FALSE),
                0, TRUE)

\* UnicodeTextEditor::setMultiLine
setMultiLine(ed, shouldBeMultiLine, shouldWordWrap) ==
    [ed EXCEPT !.multiline = shouldBeMultiLine,
               !.wordWrap = shouldWordWrap /\ shouldBeMultiLine]

\* UnicodeTextEditor::setReadOnly
setReadOnly(ed, shouldBeReadOnly) == [ed EXCEPT !.readOnly = shouldBeReadOnly]

\* UnicodeTextEditor::setHighlightedRegion
setHighlightedRegion(ed, newSelection) ==
    LET cursorAtStart == newSelection.end = ed.selection.start
                         \/ newSelection.end = ed.selection.end
    IN IF newSelection = ed.selection THEN ed
       ELSE moveCaretTo(moveCaretTo(ed, IF cursorAtStart THEN newSelection.end
                                        ELSE newSelection.start, FALSE),
                        IF cursorAtStart THEN newSelection.start ELSE newSelection.end,
                        TRUE)

\* UnicodeTextEditor::mouseDown, mouseDrag and mouseUp.  index is what
\* getTextIndexAt gives for the position of the mouse; the editor has the
\* focus or does not select all its text when it gets it, and its popup menu
\* is enabled.
mouseDown(ed, inEditor, index, isShiftDown, isPopupMenu) ==
    IF ~ inEditor THEN [ed EXCEPT !.mouseDownInEditor = FALSE]
    ELSE IF isPopupMenu THEN newTransaction([ed EXCEPT !.mouseDownInEditor = TRUE])
    ELSE moveCaretTo(newTransaction([ed EXCEPT !.mouseDownInEditor = TRUE]),
                     index, isShiftDown)

mouseDrag(ed, index, isPopupMenu) ==
    IF ~ ed.mouseDownInEditor \/ isPopupMenu THEN ed
    ELSE moveCaretTo(ed, index, TRUE)

mouseUp(ed, index, mouseWasClicked, isPopupMenu) ==
    IF ~ ed.mouseDownInEditor THEN ed
    ELSE IF mouseWasClicked /\ ~ isPopupMenu THEN moveCaret(newTransaction(ed), index)
    ELSE newTransaction(ed)

\* UnicodeTextEditor::setReturnKeyStartsNewLine
setReturnKeyStartsNewLine(ed, shouldStartNewLine) ==
    [ed EXCEPT !.returnKeyStartsNewLine = shouldStartNewLine]

\* UnicodeTextEditor::moveCaretWithTransaction
moveCaretWithTransaction(ed, newPos, selecting) ==
    moveCaretTo(newTransaction(ed), newPos, selecting)

\* UnicodeTextEditor::moveCaretLeft
moveCaretLeft(ed, moveInWholeWordSteps, selecting) ==
    moveCaretWithTransaction(ed,
                             IF moveInWholeWordSteps
                             THEN findWordBreakBefore(ed, ed.caretPosition)
                             ELSE ed.caretPosition - 1,
                             selecting)

\* UnicodeTextEditor::moveCaretRight, one character at a time
moveCaretRight(ed, selecting) ==
    moveCaretWithTransaction(ed, ed.caretPosition + 1, selecting)

\* UnicodeTextEditor::copyToClipboard, cutToClipboard and pasteFromClipboard;
\* the clipboard is outside the editor, clip is the text it holds
copyToClipboard(ed) == copy(newTransaction(ed))
cutToClipboard(ed) == cut(copy(newTransaction(ed)))
pasteFromClipboard(ed, clip) == paste(newTransaction(ed), clip)

\* UnicodeTextEditor::timerCallbackInt; idle says whether now is more than
\* 200 ms after lastTransactionTime
timerCallbackInt(ed, idle) == IF idle THEN newTransaction(ed) ELSE ed

\* UnicodeTextEditor::focusGained (the editor does not select all its text
\* when it gets the focus) and UnicodeTextEditor::focusLost
focusGained(ed) == newTransaction(ed)
focusLost(ed) == newTransaction(ed)

\* the keys: one that gives a text character, return, escape, and those that
\* juce::TextEditorKeyMapper turns into a call of the editor
Keys == {"char", "return", "escape", "left", "wordLeft", "right", "backspace",
         "wordBackspace", "delete", "copy", "cut", "paste", "selectAll",
         "undo", "redo"}

\* UnicodeTextEditor::keyPressed; c is the text character of the key.  What
\* it returns, whether the key was used, is left out, and so are the
\* messages returnPressed and escapePressed post.
keyPressed(ed, key, c, clip) ==
    IF ed.readOnly /\ key \notin {"copy", "selectAll"} THEN ed
    ELSE CASE key = "left" -> moveCaretLeft(ed, FALSE, FALSE)
           [] key = "wordLeft" -> moveCaretLeft(ed, TRUE, FALSE)
           [] key = "right" -> moveCaretRight(ed, FALSE)
           [] key = "backspace" -> deleteBackwards(ed, FALSE)
           [] key = "wordBackspace" -> deleteBackwards(ed, TRUE)
           [] key = "delete" -> deleteForwards(ed)
           [] key = "copy" -> copyToClipboard(ed)
           [] key = "cut" -> cutToClipboard(ed)
           [] key = "paste" -> pasteFromClipboard(ed, clip)
           [] key = "selectAll" -> selectAll(ed)
           [] key = "undo" -> undo(ed).ed
           [] key = "redo" -> redo(ed).ed
           [] key = "return" ->
                IF ed.returnKeyStartsNewLine
                THEN insertTextAtCaret(newTransaction(ed), <<LF>>)
                ELSE newTransaction(ed)
           [] key = "escape" -> moveCaretTo(newTransaction(ed), ed.caretPosition, FALSE)
           [] OTHER -> insertTextAtCaret(ed, <<c>>)

\* UnicodeTextEditor::setJustification
setJustification(ed, j) == [ed EXCEPT !.justification = j]

\* UnicodeTextEditor::setPasswordCharacter
setPasswordCharacter(ed, newPasswordCharacter) ==
    IF ed.passwordCharacter # newPasswordCharacter
    THEN applyFontToAllText([ed EXCEPT !.passwordCharacter = newPasswordCharacter],
                            ed.currentFont, TRUE)
    ELSE ed

\* The viewport takes a new size: what getMaximumTextWidth and
\* getMaximumTextHeight return from then on
viewportResized(ed, w, h) ==
    [ed EXCEPT !.maximumTextWidth = Max(1, w), !.maximumTextHeight = Max(1, h)]

\* ------------------------------------------------------------------------
\* Layout: the font metrics and UnicodeTextEditor::Iterator.
\* Lengths are whole numbers.  Every character of a font has the same width,
\* so that glyph k (from 0) of a line of text has its right edge at
\* (k + 1) widths; a newline atom has the width 0 that initialiseAtoms
\* gives it.  maxDescent is left out: only drawing reads it.
\* ------------------------------------------------------------------------
\* juce::Font::getHeight
getHeight(f) == 2 * f
\* juce::GlyphArrangement::getGlyph (k).getRight() for a line of text at 0
getRight(f, k) == f * (k + 1)

\* the line spacing of the editor
lineSpacing == 1

\* the value of std::numeric_limits<int>::max()
intMax == 2147483647

\* TextAtom::isWhitespace
atomIsWhitespace(atom) == isWhitespace(charAt(atom.atomText, 1))

\* UnicodeTextEditor::getWordWrapWidth
getWordWrapWidth(ed) == IF ed.wordWrap THEN ed.maximumTextWidth ELSE intMax

\* Iterator::shouldWrap: (x - 0.0001f) >= wordWrapWidth, on whole numbers
shouldWrap(ed, x) == x > getWordWrapWidth(ed)

\* Iterator::getJustificationOffsetX
getJustificationOffsetX(ed, lineWidth) ==
    IF "horizontallyCentred" \in ed.justification
    THEN Max(0, (ed.maximumTextWidth - lineWidth) \div 2)
    ELSE IF "right" \in ed.justification
    THEN Max(0, ed.maximumTextWidth - lineWidth)
    ELSE 0

\* the atom of a section the iterator points to, with its width
atomAt(ed, sectionIndex, atomIndex) ==
    [atomText |-> ed.sections[sectionIndex + 1].atoms[atomIndex + 1].atomText,
     numChars |-> ed.sections[sectionIndex + 1].atoms[atomIndex + 1].numChars,
     width |-> ed.sections[sectionIndex + 1].atoms[atomIndex + 1].width]

\* The loop of Iterator::beginNewLine: the width of the line that starts and
\* its height
RECURSIVE beginNewLineLoop(_, _, _, _, _, _)
beginNewLineLoop(ed, tempSectionIndex, tempAtomIndex, lineWidth, nextLineWidth, lineHeight) ==
    LET found == [lineWidth |-> nextLineWidth, lineHeight |-> lineHeight]
        moves == tempAtomIndex >= Len(ed.sections[tempSectionIndex + 1].atoms)
        si == IF moves THEN tempSectionIndex + 1 ELSE tempSectionIndex
        ai == IF moves THEN 0 ELSE tempAtomIndex
    IN IF shouldWrap(ed, nextLineWidth)
       THEN [lineWidth |-> lineWidth, lineHeight |-> lineHeight]
       ELSE IF tempSectionIndex >= Len(ed.sections) THEN found
       ELSE IF si >= Len(ed.sections) THEN found
       ELSE IF ai >= Len(ed.sections[si + 1].atoms) THEN found
       ELSE IF shouldWrap(ed, nextLineWidth + atomAt(ed, si, ai).width)
               \/ isNewLine(atomAt(ed, si, ai))
       THEN found
       ELSE beginNewLineLoop(ed, si, ai + 1, nextLineWidth,
                             nextLineWidth + atomAt(ed, si, ai).width,
                             IF moves
                             THEN Max(lineHeight, getHeight(ed.sections[si + 1].font))
                             ELSE lineHeight)

\* Iterator::beginNewLine
beginNewLine(ed, it) ==
    LET line == beginNewLineLoop(ed, it.sectionIndex, it.atomIndex, 0,
                                 IF it.atom # <<>> THEN it.atom[1].width ELSE 0,
                                 getHeight(ed.sections[it.sectionIndex + 1].font))
    IN [it EXCEPT !.lineY = it.lineY + it.lineHeight * lineSpacing,
                  !.lineHeight = line.lineHeight,
                  !.atomX = getJustificationOffsetX(ed, line.lineWidth)]

\* Iterator::Iterator
Iterator(ed) ==
    LET start == [indexInText |-> 0, lineY |-> 0, lineHeight |-> 0,
                  atomX |-> 0, atomRight |-> 0,
                  atom |-> <<>>, atomIsLongAtom |-> FALSE,
                  currentSection |-> 0, sectionIndex |-> 0, atomIndex |-> 0]
    IN [(IF ed.sections # <<>> THEN beginNewLine(ed, start) ELSE start)
            EXCEPT !.lineHeight = getHeight(ed.currentFont)]

\* Iterator::moveToEndOfLastAtom
moveToEndOfLastAtom(ed, it) ==
    IF it.atom = <<>> THEN it
    ELSE IF isNewLine(it.atom[1])
    THEN [it EXCEPT !.atomX = getJustificationOffsetX(ed, 0),
                    !.lineY = it.lineY + it.lineHeight * lineSpacing]
    ELSE [it EXCEPT !.atomX = it.atomRight]

\* the loop of Iterator::chunkLongAtom: the first glyph that should wrap
RECURSIVE firstWrappingGlyph(_, _, _, _)
firstWrappingGlyph(ed, f, splitAt, numGlyphs) ==
    IF splitAt < numGlyphs /\ ~ shouldWrap(ed, getRight(f, splitAt))
    THEN firstWrappingGlyph(ed, f, splitAt + 1, numGlyphs)
    ELSE splitAt

\* chunkLongAtom without the line it starts for a chunk that is not the last
chunkLongAtomOnSameLine(ed, it, shouldStartNewLine) ==
    LET longAtom == it.atom[1]
        numRemaining == Len(longAtom.atomText) - longAtom.numChars
        rest == SubSeq(longAtom.atomText, longAtom.numChars + 1, Len(longAtom.atomText))
        f == ed.sections[it.currentSection + 1].font
        splitAt == firstWrappingGlyph(ed, f, 0, Len(atomGetText([atomText |-> rest],
                                                                ed.passwordCharacter)))
        numChars == Max(1, splitAt) % UInt16Mod
        chunk == [atomText |-> rest, numChars |-> numChars,
                  width |-> getRight(f, numChars - 1)]
        it1 == [it EXCEPT !.indexInText = it.indexInText + longAtom.numChars,
                          !.atom = <<chunk>>,
                          !.atomX = getJustificationOffsetX(ed, chunk.width)]
        it2 == IF shouldStartNewLine /\ splitAt = numRemaining
               THEN beginNewLine(ed, it1)
               ELSE it1
    IN IF numRemaining <= 0 THEN [it |-> it, ret |-> FALSE]
       ELSE [it |-> [it2 EXCEPT !.atomRight = it2.atomX + chunk.width], ret |-> TRUE]

\* Variant of chunkLongAtom that leaves indexInText where it is
chunkLongAtomInPlace(ed, it, shouldStartNewLine) ==
    LET longAtom == it.atom[1]
        numRemaining == Len(longAtom.atomText) - longAtom.numChars
        rest == SubSeq(longAtom.atomText, longAtom.numChars + 1, Len(longAtom.atomText))
        f == ed.sections[it.currentSection + 1].font
        splitAt == firstWrappingGlyph(ed, f, 0, Len(atomGetText([atomText |-> rest],
                                                                ed.passwordCharacter)))
        numChars == Max(1, splitAt) % UInt16Mod
        chunk == [atomText |-> rest, numChars |-> numChars,
                  width |-> getRight(f, numChars - 1)]
        it1 == [it EXCEPT !.atom = <<chunk>>,
                          !.atomX = getJustificationOffsetX(ed, chunk.width)]
        it2 == IF shouldStartNewLine
               THEN IF splitAt = numRemaining
                    THEN beginNewLine(ed, it1)
                    ELSE [it1 EXCEPT !.lineY = it1.lineY + it1.lineHeight * lineSpacing]
               ELSE it1
    IN IF numRemaining <= 0 THEN [it |-> it, ret |-> FALSE]
       ELSE [it |-> [it2 EXCEPT !.atomRight = it2.atomX + chunk.width], ret |-> TRUE]

\* Variant of chunkLongAtom whose chunk has no character when no glyph fits
chunkLongAtomOfNone(ed, it, shouldStartNewLine) ==
    LET longAtom == it.atom[1]
        numRemaining == Len(longAtom.atomText) - longAtom.numChars
        rest == SubSeq(longAtom.atomText, longAtom.numChars + 1, Len(longAtom.atomText))
        f == ed.sections[it.currentSection + 1].font
        splitAt == firstWrappingGlyph(ed, f, 0, Len(atomGetText([atomText |-> rest],
                                                                ed.passwordCharacter)))
        numChars == splitAt % UInt16Mod
        chunk == [atomText |-> rest, numChars |-> numChars,
                  width |-> getRight(f, numChars - 1)]
        it1 == [it EXCEPT !.indexInText = it.indexInText + longAtom.numChars,
                          !.atom = <<chunk>>,
                          !.atomX = getJustificationOffsetX(ed, chunk.width)]
        it2 == IF shouldStartNewLine
               THEN IF splitAt = numRemaining
                    THEN beginNewLine(ed, it1)
                    ELSE [it1 EXCEPT !.lineY = it1.lineY + it1.lineHeight * lineSpacing]
               ELSE it1
    IN IF numRemaining <= 0 THEN [it |-> it, ret |-> FALSE]
       ELSE [it |-> [it2 EXCEPT !.atomRight = it2.atomX + chunk.width], ret |-> TRUE]

\* Iterator::chunkLongAtom; the atom of the iterator is its longAtom
chunkLongAtom(ed, it, shouldStartNewLine) ==
    LET longAtom == it.atom[1]
        numRemaining == Len(longAtom.atomText) - longAtom.numChars
        rest == SubSeq(longAtom.atomText, longAtom.numChars + 1, Len(longAtom.atomText))
        f == ed.sections[it.currentSection + 1].font
        splitAt == firstWrappingGlyph(ed, f, 0, Len(atomGetText([atomText |-> rest],
                                                                ed.passwordCharacter)))
        numChars == Max(1, splitAt) % UInt16Mod
        chunk == [atomText |-> rest, numChars |-> numChars,
                  width |-> getRight(f, numChars - 1)]
        it1 == [it EXCEPT !.indexInText = it.indexInText + longAtom.numChars,
                          !.atom = <<chunk>>,
                          !.atomX = getJustificationOffsetX(ed, chunk.width)]
        it2 == IF shouldStartNewLine
               THEN IF splitAt = numRemaining
                    THEN beginNewLine(ed, it1)
                    ELSE [it1 EXCEPT !.lineY = it1.lineY + it1.lineHeight * lineSpacing]
               ELSE it1
    IN IF numRemaining <= 0 THEN [it |-> it, ret |-> FALSE]
       ELSE [it |-> [it2 EXCEPT !.atomRight = it2.atomX + chunk.width], ret |-> TRUE]

\* The loop of Iterator::next over the sections that follow a section whose
\* last atom is a word: does the word they go on with have to wrap
RECURSIVE wordGoesOn(_, _, _, _)
wordGoesOn(ed, section, right, lineHeight2) ==
    IF section >= Len(ed.sections) THEN [forceNewLine |-> FALSE, lineHeight |-> 0]
    ELSE IF ed.sections[section + 1].atoms = <<>>
    THEN [forceNewLine |-> FALSE, lineHeight |-> 0]
    ELSE IF atomIsWhitespace(atomAt(ed, section, 0))
    THEN [forceNewLine |-> FALSE, lineHeight |-> 0]
    ELSE IF shouldWrap(ed, right + atomAt(ed, section, 0).width)
    THEN [forceNewLine |-> TRUE,
          lineHeight |-> Max(lineHeight2, getHeight(ed.sections[section + 1].font))]
    ELSE IF Len(ed.sections[section + 1].atoms) > 1
    THEN [forceNewLine |-> FALSE, lineHeight |-> 0]
    ELSE wordGoesOn(ed, section + 1, right + atomAt(ed, section, 0).width,
                    Max(lineHeight2, getHeight(ed.sections[section + 1].font)))

\* Variant of nextAtom that leaves the right edge of a whitespace atom that
\* does not fit where it is
nextAtomUnclamped(ed, it, forceNewLine) ==
    LET isInPreviousAtom == it.atom # <<>> /\ ~ isNewLine(it.atom[1])
        left == IF it.atom = <<>> THEN it
                ELSE IF isNewLine(it.atom[1])
                THEN beginNewLine(ed, [it EXCEPT !.atomX = it.atomRight,
                                                 !.indexInText = @ + it.atom[1].numChars])
                ELSE [it EXCEPT !.atomX = it.atomRight,
                                !.indexInText = @ + it.atom[1].numChars]
        atom == atomAt(ed, left.currentSection, left.atomIndex)
        taken == [left EXCEPT !.atom = <<atom>>, !.atomIsLongAtom = FALSE,
                              !.atomRight = left.atomX + atom.width,
                              !.atomIndex = left.atomIndex + 1]
        onNewLine == beginNewLine(ed, taken)
    IN IF shouldWrap(ed, taken.atomRight) \/ forceNewLine
       THEN IF atomIsWhitespace(atom)
            THEN taken
            ELSE IF shouldWrap(ed, atom.width)
            THEN chunkLongAtom(ed, [taken EXCEPT !.atom = <<[atom EXCEPT !.numChars = 0]>>,
                                                 !.atomIsLongAtom = TRUE],
                               isInPreviousAtom).it
            ELSE [onNewLine EXCEPT !.atomRight = onNewLine.atomX + atom.width]
       ELSE taken

\* Iterator::next from the point where the atom to go to is known to exist:
\* leave the atom the iterator is at, take the next one and place it
nextAtom(ed, it, forceNewLine) ==
    LET isInPreviousAtom == it.atom # <<>> /\ ~ isNewLine(it.atom[1])
        left == IF it.atom = <<>> THEN it
                ELSE IF isNewLine(it.atom[1])
                THEN beginNewLine(ed, [it EXCEPT !.atomX = it.atomRight,
                                                 !.indexInText = @ + it.atom[1].numChars])
                ELSE [it EXCEPT !.atomX = it.atomRight,
                                !.indexInText = @ + it.atom[1].numChars]
        atom == atomAt(ed, left.currentSection, left.atomIndex)
        taken == [left EXCEPT !.atom = <<atom>>, !.atomIsLongAtom = FALSE,
                              !.atomRight = left.atomX + atom.width,
                              !.atomIndex = left.atomIndex + 1]
        onNewLine == beginNewLine(ed, taken)
    IN IF shouldWrap(ed, taken.atomRight) \/ forceNewLine
       THEN IF atomIsWhitespace(atom)
            THEN [taken EXCEPT !.atomRight = Min(taken.atomRight, getWordWrapWidth(ed))]
            ELSE IF shouldWrap(ed, atom.width)
            THEN chunkLongAtom(ed, [taken EXCEPT !.atom = <<[atom EXCEPT !.numChars = 0]>>,
                                                 !.atomIsLongAtom = TRUE],
                               isInPreviousAtom).it
            ELSE [onNewLine EXCEPT !.atomRight = onNewLine.atomX + atom.width]
       ELSE taken

\* Iterator::next
next(ed, it) ==
    LET numAtoms == Len(ed.sections[it.currentSection + 1].atoms)
        goesOn == wordGoesOn(ed, it.sectionIndex + 1,
                             it.atomRight + atomAt(ed, it.currentSection, it.atomIndex).width,
                             it.lineHeight)
    IN IF it.atomIsLongAtom /\ chunkLongAtom(ed, it, TRUE).ret
       THEN chunkLongAtom(ed, it, TRUE)
       ELSE IF it.sectionIndex >= Len(ed.sections)
       THEN [it |-> moveToEndOfLastAtom(ed, it), ret |-> FALSE]
       ELSE IF it.atomIndex >= numAtoms
       THEN IF it.sectionIndex + 1 >= Len(ed.sections)
            THEN [it |-> moveToEndOfLastAtom(ed, [it EXCEPT !.sectionIndex = @ + 1]),
                  ret |-> FALSE]
            ELSE [it |-> nextAtom(ed, [it EXCEPT !.sectionIndex = @ + 1,
                                                 !.currentSection = it.sectionIndex + 1,
                                                 !.atomIndex = 0],
                                  FALSE),
                  ret |-> TRUE]
       ELSE IF it.atomIndex = numAtoms - 1
               /\ ~ atomIsWhitespace(atomAt(ed, it.currentSection, it.atomIndex))
               /\ goesOn.forceNewLine
       THEN [it |-> nextAtom(ed, [it EXCEPT !.lineHeight = goesOn.lineHeight], TRUE),
             ret |-> TRUE]
       ELSE [it |-> nextAtom(ed, it, FALSE), ret |-> TRUE]

\* while (next()) {}
RECURSIVE moveToEnd(_, _)
moveToEnd(ed, it) == IF next(ed, it).ret THEN moveToEnd(ed, next(ed, it).it) ELSE next(ed, it).it

\* The loop of Iterator::getYOffset
RECURSIVE getYOffsetLoop(_, _)
getYOffsetLoop(ed, it) ==
    LET r == next(ed, it)
        bottom == Max(0, ed.maximumTextHeight - r.it.lineY - r.it.lineHeight)
    IN IF r.ret
       THEN IF r.it.lineY >= ed.maximumTextHeight
            THEN [it |-> r.it, offset |-> 0]
            ELSE getYOffsetLoop(ed, r.it)
       ELSE [it |-> r.it,
             offset |-> IF "bottom" \in ed.justification THEN bottom ELSE bottom \div 2]

\* Iterator::getYOffset: the iterator it leaves and the offset it returns
getYOffset(ed, it) ==
    IF "top" \in ed.justification \/ it.lineY >= ed.maximumTextHeight
    THEN [it |-> it, offset |-> 0]
    ELSE getYOffsetLoop(ed, it)

\* Iterator::getTotalTextHeight on a new iterator.  The sum
\* lineY + lineHeight + getYOffset() reads lineY before or after the call
\* that can change it: offsetFirst says which.
getTotalTextHeight(ed, offsetFirst) ==
    LET end == moveToEnd(ed, Iterator(ed))
        y == getYOffset(ed, end)
        height == (IF offsetFirst THEN y.it.lineY ELSE end.lineY)
                  + y.it.lineHeight + y.offset
    IN IF y.it.atom # <<>> /\ isNewLine(y.it.atom[1])
       THEN height + y.it.lineHeight
       ELSE height

\* juce::GlyphArrangement::getGlyph (k).getLeft() for a line of text at 0
getLeft(f, k) == f * k

\* Variant of indexToX that gives the left edge of the atom for every index
indexToXOfAtom(ed, it, indexToFind) == it.atomX

\* Iterator::indexToX
indexToX(ed, it, indexToFind) ==
    IF indexToFind <= it.indexInText \/ it.atom = <<>> THEN it.atomX
    ELSE IF indexToFind >= it.indexInText + it.atom[1].numChars THEN it.atomRight
    ELSE IF indexToFind - it.indexInText
               >= Len(atomGetText(it.atom[1], ed.passwordCharacter))
    THEN it.atomRight
    ELSE Min(it.atomRight,
             it.atomX + getLeft(ed.sections[it.currentSection + 1].font,
                                indexToFind - it.indexInText))

\* the loop of Iterator::xToIndex: the first glyph from j on whose middle is
\* right of xToFind; the middle is compared doubled
RECURSIVE firstGlyphRightOf(_, _, _, _, _)
firstGlyphRightOf(f, atomX, numGlyphs, xToFind, j) ==
    IF j < numGlyphs
       /\ ~ ((atomX + getLeft(f, j)) + (atomX + getRight(f, j)) > 2 * xToFind)
    THEN firstGlyphRightOf(f, atomX, numGlyphs, xToFind, j + 1)
    ELSE j

\* Iterator::xToIndex
xToIndex(ed, it, xToFind) ==
    IF xToFind <= it.atomX \/ it.atom = <<>> THEN it.indexInText
    ELSE IF isNewLine(it.atom[1]) THEN it.indexInText
    ELSE IF xToFind >= it.atomRight THEN it.indexInText + it.atom[1].numChars
    ELSE it.indexInText
           + firstGlyphRightOf(ed.sections[it.currentSection + 1].font, it.atomX,
                               Len(atomGetText(it.atom[1], ed.passwordCharacter)),
                               xToFind, 0)

\* Iterator::getCharPosition
RECURSIVE iteratorGetCharPosition(_, _, _)
iteratorGetCharPosition(ed, it, index) ==
    LET r == next(ed, it)
    IN IF r.ret
       THEN IF r.it.indexInText + r.it.atom[1].numChars > index
            THEN [x |-> indexToX(ed, r.it, index), y |-> r.it.lineY,
                  lineHeight |-> r.it.lineHeight, ret |-> TRUE]
            ELSE iteratorGetCharPosition(ed, r.it, index)
       ELSE [x |-> r.it.atomX, y |-> r.it.lineY,
             lineHeight |-> r.it.lineHeight, ret |-> FALSE]

\* UnicodeTextEditor::getCharPosition: the anchor and the line height
getCharPosition(ed, index) ==
    LET found == iteratorGetCharPosition(ed, Iterator(ed), index)
    IN IF getWordWrapWidth(ed) <= 0
       THEN [x |-> 0, y |-> 0, lineHeight |-> getHeight(ed.currentFont)]
       ELSE IF ed.sections = <<>>
       THEN [x |-> getJustificationOffsetX(ed, 0), y |-> 0,
             lineHeight |-> getHeight(ed.currentFont)]
       ELSE [x |-> found.x, y |-> found.y, lineHeight |-> found.lineHeight]

\* the loop of UnicodeTextEditor::indexAtPosition
RECURSIVE indexAtPositionLoop(_, _, _, _)
indexAtPositionLoop(ed, it, x, y) ==
    LET r == next(ed, it)
    IN IF ~ r.ret THEN totalNumCharsValue(ed)
       ELSE IF y < r.it.lineY + r.it.lineHeight /\ y < r.it.lineY
       THEN Max(0, r.it.indexInText - 1)
       ELSE IF y < r.it.lineY + r.it.lineHeight
               /\ (x <= r.it.atomX \/ isNewLine(r.it.atom[1]))
       THEN r.it.indexInText
       ELSE IF y < r.it.lineY + r.it.lineHeight /\ x < r.it.atomRight
       THEN xToIndex(ed, r.it, x)
       ELSE indexAtPositionLoop(ed, r.it, x, y)

\* UnicodeTextEditor::indexAtPosition
indexAtPosition(ed, x, y) ==
    IF getWordWrapWidth(ed) > 0
    THEN indexAtPositionLoop(ed, Iterator(ed), x, y)
    ELSE totalNumCharsValue(ed)

\* ------------------------------------------------------------------------
\* State
\* ------------------------------------------------------------------------
\* The editor's fields, and two observers for the properties: lastOp, what
\* the last operation was, with what arguments and what it returned; base,
\* the text the document had when the undo history was last emptied.
\* maximumTextWidth and maximumTextHeight are what getMaximumTextWidth() and
\* getMaximumTextHeight() return: the viewport's visible size less the
\* indents, and at least 1.  listeners is the number of listeners and
\* onTextChange callbacks the host has installed, commandMessages the number
\* of textChangeMessageId messages posted and not handled yet.
VARIABLES sections, totalNumChars, caretPosition, selection, dragType,
          currentFont, multiline, readOnly,
          transactions, nextIndex, umNewTransaction,
          wordWrap, justification, passwordCharacter,
          maximumTextWidth, maximumTextHeight, mouseDownInEditor,
          listeners, commandMessages, returnKeyStartsNewLine,
          inputFilter, clipboard,
          lastOp, base

vars == <<sections, totalNumChars, caretPosition, selection, dragType,
          currentFont, multiline, readOnly,
          transactions, nextIndex, umNewTransaction,
          wordWrap, justification, passwordCharacter,
          maximumTextWidth, maximumTextHeight, mouseDownInEditor,
          listeners, commandMessages, returnKeyStartsNewLine,
          inputFilter, clipboard,
          lastOp, base>>

\* The editor as a value
Ed == [sections |-> sections, totalNumChars |-> totalNumChars,
       caretPosition |-> caretPosition, selection |-> selection,
       dragType |-> dragType, currentFont |-> currentFont,
       multiline |-> multiline, readOnly |-> readOnly,
       transactions |-> transactions, nextIndex |-> nextIndex,
       umNewTransaction |-> umNewTransaction,
       wordWrap |-> wordWrap, justification |-> justification,
       passwordCharacter |-> passwordCharacter,
       maximumTextWidth |-> maximumTextWidth,
       maximumTextHeight |-> maximumTextHeight,
       mouseDownInEditor |-> mouseDownInEditor,
       listeners |-> listeners, commandMessages |-> commandMessages,
       returnKeyStartsNewLine |-> returnKeyStartsNewLine,
       inputFilter |-> inputFilter, clipboard |-> clipboard]

\* The editor after the step
EdNext == [sections |-> sections', totalNumChars |-> totalNumChars',
           caretPosition |-> caretPosition', selection |-> selection',
           dragType |-> dragType', currentFont |-> currentFont',
           multiline |-> multiline', readOnly |-> readOnly',
           transactions |-> transactions', nextIndex |-> nextIndex',
           umNewTransaction |-> umNewTransaction',
           wordWrap |-> wordWrap', justification |-> justification',
           passwordCharacter |-> passwordCharacter',
           maximumTextWidth |-> maximumTextWidth',
           maximumTextHeight |-> maximumTextHeight',
           mouseDownInEditor |-> mouseDownInEditor',
           listeners |-> listeners', commandMessages |-> commandMessages',
           returnKeyStartsNewLine |-> returnKeyStartsNewLine',
           inputFilter |-> inputFilter', clipboard |-> clipboard']

Becomes(ed) ==
    /\ sections' = ed.sections
    /\ totalNumChars' = ed.totalNumChars
    /\ caretPosition' = ed.caretPosition
    /\ selection' = ed.selection
    /\ dragType' = ed.dragType
    /\ currentFont' = ed.currentFont
    /\ multiline' = ed.multiline
    /\ readOnly' = ed.readOnly
    /\ transactions' = ed.transactions
    /\ nextIndex' = ed.nextIndex
    /\ umNewTransaction' = ed.umNewTransaction
    /\ wordWrap' = ed.wordWrap
    /\ justification' = ed.justification
    /\ passwordCharacter' = ed.passwordCharacter
    /\ maximumTextWidth' = ed.maximumTextWidth
    /\ maximumTextHeight' = ed.maximumTextHeight
    /\ mouseDownInEditor' = ed.mouseDownInEditor
    /\ listeners' = ed.listeners
    /\ commandMessages' = ed.commandMessages
    /\ returnKeyStartsNewLine' = ed.returnKeyStartsNewLine
    /\ inputFilter' = ed.inputFilter
    /\ clipboard' = ed.clipboard

Op(name, ret) == [op |-> name, ret |-> ret, tag |-> "none"]
OpTag(name, tag) == [op |-> name, ret |-> TRUE, tag |-> tag]

RECURSIVE countActions(_)
countActions(txns) == IF txns = <<>> THEN 0 ELSE Len(txns[1]) + countActions(Tail(txns))

\* ------------------------------------------------------------------------
\* Inputs
\* ------------------------------------------------------------------------
\* texts typed or pasted into the editor
InsertTexts == {<<"a">>, <<SP>>, <<CR, CR, LF>>}
\* texts given to setText
SetTexts == {<<>>, <<"a">>, <<"a", "b">>, <<"a", CR, LF>>}
Positions == -1 .. (MaxLen + 1)

\* ------------------------------------------------------------------------
\* Initial state: the editor after construction
\* ------------------------------------------------------------------------
Init ==
    /\ sections = <<>>
    /\ totalNumChars \in {-1, 0}
    /\ caretPosition = 0
    /\ selection = emptyRange(0)
    /\ dragType = notDragging
    /\ currentFont = defaultFont
    /\ multiline = FALSE
    /\ readOnly = FALSE
    /\ transactions = <<>>
    /\ nextIndex = 0
    /\ umNewTransaction = TRUE
    /\ wordWrap = FALSE
    /\ justification = topLeft
    /\ passwordCharacter = NUL
    /\ maximumTextWidth = 1
    /\ maximumTextHeight = 1
    /\ mouseDownInEditor = FALSE
    /\ listeners = 0
    /\ commandMessages = 0
    /\ returnKeyStartsNewLine = FALSE
    /\ inputFilter = <<>>
    /\ clipboard = <<>>
    /\ lastOp = Op("construct", TRUE)
    /\ base = [phase |-> "edits", text |-> <<>>]

WithinBounds(ed) ==
    /\ sumSectionLengths(ed.sections) <= MaxLen
    /\ countActions(ed.transactions) <= MaxActions

\* the editor is as it is right after construction, apart from its settings
Unused == sections = <<>> /\ transactions = <<>>

\* ------------------------------------------------------------------------
\* Steps: one per operation of the editor
\* ------------------------------------------------------------------------
Step(name, post) ==
    /\ WithinBounds(post)
    /\ Becomes(post)
    /\ lastOp' = Op(name, TRUE)

InsertTextAtCaretStep == \E t \in InsertTexts : Step("edit", insertTextAtCaret(Ed, t))
PasteStep == \E t \in InsertTexts : Step("edit", paste(Ed, t))
CutStep == Step("edit", cut(Ed))
DeleteBackwardsStep == \E w \in BOOLEAN : Step("edit", deleteBackwards(Ed, w))
DeleteForwardsStep == Step("edit", deleteForwards(Ed))

\* an operation that reports whether it did anything
StepReturning(name, r) == Becomes(r.ed) /\ lastOp' = Op(name, r.ret)

UndoStep == StepReturning("undo", undo(Ed))
RedoStep == StepReturning("redo", redo(Ed))

\* the idle timer, a mouse click, a caret command or a focus change closes
\* the open transaction
NewTransactionStep == Step("other", newTransaction(Ed))

SetCaretPositionStep == \E p \in Positions : Step("other", setCaretPosition(Ed, p))
SelectAllStep == Step("other", selectAll(Ed))

SetTextStep == \E t \in SetTexts : Step("other", setText(Ed, t))
ClearStep == Step("other", clear(Ed))
SetFontStep == \E f \in Fonts : Step("other", setFont(Ed, f))

ApplyFontToAllTextStep ==
    \E f \in Fonts, c \in BOOLEAN : Step("other", applyFontToAllText(Ed, f, c))

\* the host chooses the editor's mode before it puts text in it
SetMultiLineStep ==
    /\ Unused
    /\ \E b \in BOOLEAN, w \in BOOLEAN : Step("other", setMultiLine(Ed, b, w))

SetReadOnlyStep ==
    /\ Unused
    /\ \E b \in BOOLEAN : Step("other", setReadOnly(Ed, b))

\* ------------------------------------------------------------------------
\* Spec: the editor driven through its public operations
\* ------------------------------------------------------------------------
InsertTextAtCaret == InsertTextAtCaretStep /\ UNCHANGED base
Cut == CutStep /\ UNCHANGED base
DeleteBackwards == DeleteBackwardsStep /\ UNCHANGED base
DeleteForwards == DeleteForwardsStep /\ UNCHANGED base
Undo == UndoStep /\ UNCHANGED base
Redo == RedoStep /\ UNCHANGED base
NewTransaction == NewTransactionStep /\ UNCHANGED base
SetCaretPosition == SetCaretPositionStep /\ UNCHANGED base
SelectAll == SelectAllStep /\ UNCHANGED base
SetText == SetTextStep /\ UNCHANGED base
Clear == ClearStep /\ UNCHANGED base
SetFont == SetFontStep /\ UNCHANGED base
ApplyFontToAllText == ApplyFontToAllTextStep /\ UNCHANGED base
SetMultiLine == SetMultiLineStep /\ UNCHANGED base

Next ==
    \/ InsertTextAtCaret
    \/ Cut
    \/ DeleteBackwards
    \/ DeleteForwards
    \/ Undo
    \/ Redo
    \/ NewTransaction
    \/ SetCaretPosition
    \/ SelectAll
    \/ SetText
    \/ Clear
    \/ SetFont
    \/ ApplyFontToAllText
    \/ SetMultiLine

Spec == Init /\ [][Next]_vars

\* ------------------------------------------------------------------------
\* SpecUndoAll: edits recorded in the undo history, transaction boundaries
\* and undo, with base following the text to come back to
\* ------------------------------------------------------------------------
\* an edit keeps base while every edit since the history was emptied has been
\* recorded and undo has not been called yet
baseAfterEdit ==
    IF base.phase = "edits" /\ hasUndoManager(Ed) THEN base
    ELSE [base EXCEPT !.phase = "off"]

baseAfterUndo ==
    IF base.phase \in {"edits", "undoing"} THEN [base EXCEPT !.phase = "undoing"]
    ELSE base

baseAfterOther ==
    IF base.phase = "edits" THEN base ELSE [base EXCEPT !.phase = "off"]

\* setText leaves the history alone when the text is the one the document has
baseReset ==
    IF transactions' = <<>>
    THEN [phase |-> "edits", text |-> getText(EdNext)]
    ELSE baseAfterOther

UInsertTextAtCaret == InsertTextAtCaretStep /\ base' = baseAfterEdit
UPaste == PasteStep /\ base' = baseAfterEdit
UCut == CutStep /\ base' = baseAfterEdit
UDeleteBackwards == DeleteBackwardsStep /\ base' = baseAfterEdit
UDeleteForwards == DeleteForwardsStep /\ base' = baseAfterEdit
UUndo == UndoStep /\ base' = baseAfterUndo
UNewTransaction == NewTransactionStep /\ base' = baseAfterOther
USetCaretPosition == SetCaretPositionStep /\ base' = baseAfterOther
USelectAll == SelectAllStep /\ base' = baseAfterOther
USetText == SetTextStep /\ base' = baseReset
UClear == ClearStep /\ base' = baseReset
USetMultiLine == SetMultiLineStep /\ base' = baseAfterOther

NextUndoAll ==
    \/ UInsertTextAtCaret
    \/ UPaste
    \/ UCut
    \/ UDeleteBackwards
    \/ UDeleteForwards
    \/ UUndo
    \/ UNewTransaction
    \/ USetCaretPosition
    \/ USelectAll
    \/ USetText
    \/ UClear
    \/ USetMultiLine

SpecUndoAll == Init /\ [][NextUndoAll]_vars

\* ------------------------------------------------------------------------
\* SpecLayout: documents with line breaks and long words, in a viewport that
\* changes its size, with the settings the layout reads
\* ------------------------------------------------------------------------
LayoutTexts == {<<>>, <<"a">>, <<LF>>, <<"a", LF>>, <<"a", LF, "b">>,
                <<"a", "b", "c">>, <<"a", "b", SP, "c">>, <<"a", SP, "b", LF>>}
LayoutInserts == {<<"b", "b">>, <<LF>>}
Justifications == {topLeft, topRight, bottomLeft, centredLeft}
PasswordCharacters == {NUL, "*"}

LayoutStep(post) ==
    /\ sumSectionLengths(post.sections) <= MaxLayoutLen
    /\ countActions(post.transactions) <= MaxActions
    /\ Becomes(post)
    /\ lastOp' = Op("other", TRUE)
    /\ UNCHANGED base

LSetText == \E t \in LayoutTexts : LayoutStep(setText(Ed, t))
LInsertTextAtCaret == \E t \in LayoutInserts : LayoutStep(insertTextAtCaret(Ed, t))
LSetFont == \E f \in Fonts : LayoutStep(setFont(Ed, f))
LSetMultiLine == \E b \in BOOLEAN, w \in BOOLEAN : LayoutStep(setMultiLine(Ed, b, w))
LSetJustification == \E j \in Justifications : LayoutStep(setJustification(Ed, j))
LSetPasswordCharacter ==
    \E c \in PasswordCharacters : LayoutStep(setPasswordCharacter(Ed, c))
LViewportResized ==
    \E w \in 1..MaxTextWidth, h \in {1, MaxTextHeight} : LayoutStep(viewportResized(Ed, w, h))

NextLayout ==
    \/ LSetText
    \/ LInsertTextAtCaret
    \/ LSetFont
    \/ LSetMultiLine
    \/ LSetJustification
    \/ LSetPasswordCharacter
    \/ LViewportResized

SpecLayout == Init /\ [][NextLayout]_vars

\* ------------------------------------------------------------------------
\* SpecCaret: the caret and the selection moved by the keyboard, the host
\* and the mouse, between edits, undo and redo
\* ------------------------------------------------------------------------
\* the ranges a host can ask to have selected
Regions == {r \in [start : Positions, end : Positions] : r.start <= r.end}
\* the indices getTextIndexAt can give
TextIndices == 0 .. sumSectionLengths(sections)

MoveCaretToStep ==
    \E p \in Positions, isSelecting \in BOOLEAN :
        Step("caret", moveCaretTo(Ed, p, isSelecting))
SetHighlightedRegionStep == \E r \in Regions : Step("caret", setHighlightedRegion(Ed, r))
MouseDownStep ==
    \E inEditor \in BOOLEAN, index \in TextIndices,
       isShiftDown \in BOOLEAN, isPopupMenu \in BOOLEAN :
        Step("mouseDown", mouseDown(Ed, inEditor, index, isShiftDown, isPopupMenu))
MouseDragStep ==
    \E index \in TextIndices, isPopupMenu \in BOOLEAN :
        Step("mouseDrag", mouseDrag(Ed, index, isPopupMenu))
MouseUpStep ==
    \E index \in TextIndices, mouseWasClicked \in BOOLEAN, isPopupMenu \in BOOLEAN :
        Step("mouseUp", mouseUp(Ed, index, mouseWasClicked, isPopupMenu))

CMoveCaretTo == MoveCaretToStep /\ UNCHANGED base
CSetHighlightedRegion == SetHighlightedRegionStep /\ UNCHANGED base
CSelectAll == SelectAllStep /\ UNCHANGED base
CInsertTextAtCaret == InsertTextAtCaretStep /\ UNCHANGED base
CCut == CutStep /\ UNCHANGED base
CDeleteBackwards == DeleteBackwardsStep /\ UNCHANGED base
CDeleteForwards == DeleteForwardsStep /\ UNCHANGED base
CUndo == UndoStep /\ UNCHANGED base
CRedo == RedoStep /\ UNCHANGED base
CSetText == SetTextStep /\ UNCHANGED base
CMouseDown == MouseDownStep /\ UNCHANGED base
CMouseDrag == MouseDragStep /\ UNCHANGED base
CMouseUp == MouseUpStep /\ UNCHANGED base

NextCaret ==
    \/ CMoveCaretTo
    \/ CSetHighlightedRegion
    \/ CSelectAll
    \/ CInsertTextAtCaret
    \/ CCut
    \/ CDeleteBackwards
    \/ CDeleteForwards
    \/ CUndo
    \/ CRedo
    \/ CSetText
    \/ CMouseDown
    \/ CMouseDrag
    \/ CMouseUp

SpecCaret == Init /\ [][NextCaret]_vars

\* ------------------------------------------------------------------------
\* SpecNotify: the editor with a host that listens for text changes; the
\* messages textChanged posts are handled later, one at a time
\* ------------------------------------------------------------------------
Posted == commandMessages' <= MaxMessages /\ UNCHANGED base

SetListenersStep == \E n \in 0..1 : Step("other", setListeners(Ed, n))
SetTextSendingStep ==
    \E t \in SetTexts, sendTextChangeMessage \in BOOLEAN :
        /\ WithinBounds(setTextSending(Ed, t, sendTextChangeMessage))
        /\ Becomes(setTextSending(Ed, t, sendTextChangeMessage))
        /\ lastOp' = OpTag("setText", IF sendTextChangeMessage THEN "sending" ELSE "silent")
HandleCommandMessageStep ==
    /\ commandMessages > 0
    /\ Step("handled", handleCommandMessage(Ed))

NSetListeners == SetListenersStep /\ Posted
NInsertTextAtCaret == InsertTextAtCaretStep /\ Posted
NPaste == PasteStep /\ Posted
NCut == CutStep /\ Posted
NDeleteBackwards == DeleteBackwardsStep /\ Posted
NDeleteForwards == DeleteForwardsStep /\ Posted
NUndo == UndoStep /\ Posted
NRedo == RedoStep /\ Posted
NSetText == SetTextSendingStep /\ Posted
NClear == ClearStep /\ Posted
NHandleCommandMessage == HandleCommandMessageStep /\ Posted

NextNotify ==
    \/ NSetListeners
    \/ NInsertTextAtCaret
    \/ NPaste
    \/ NCut
    \/ NDeleteBackwards
    \/ NDeleteForwards
    \/ NUndo
    \/ NRedo
    \/ NSetText
    \/ NClear
    \/ NHandleCommandMessage

SpecNotify == Init /\ [][NextNotify]_vars

\* ------------------------------------------------------------------------
\* SpecKeys: the editor at the host boundary: keys, the idle timer, focus
\* changes and the settings the key handler reads
\* ------------------------------------------------------------------------
KeyChars == {"a", SP}
Clips == {<<>>, <<"b">>}
\* the text the host puts into the editor
HostTexts == {<<"a", "b">>}

KeyStep(name, tag, post) ==
    /\ sumSectionLengths(post.sections) <= MaxLen
    /\ countActions(post.transactions) <= MaxKeyActions
    /\ Becomes(post)
    /\ lastOp' = OpTag(name, tag)
    /\ UNCHANGED base

\* the keys pressed: all but those that write to the clipboard
PressedKeys == Keys \ {"copy", "cut"}

KKeyPressed ==
    \E key \in PressedKeys, c \in KeyChars, clip \in Clips :
        KeyStep("keyPressed", "none", keyPressed(Ed, key, c, clip))
KSetText == \E t \in HostTexts : KeyStep("other", "none", setText(Ed, t))
KTimerCallback == \E idle \in BOOLEAN : KeyStep("other", "none", timerCallbackInt(Ed, idle))
KFocusGained == KeyStep("other", "none", focusGained(Ed))
KFocusLost == KeyStep("other", "none", focusLost(Ed))
KSetReadOnly == \E b \in BOOLEAN : KeyStep("other", "none", setReadOnly(Ed, b))
KSetMultiLine == \E b \in BOOLEAN : KeyStep("other", "none", setMultiLine(Ed, b, FALSE))
KSetReturnKeyStartsNewLine ==
    \E b \in BOOLEAN : KeyStep("other", "none", setReturnKeyStartsNewLine(Ed, b))

NextKeys ==
    \/ KKeyPressed
    \/ KSetText
    \/ KTimerCallback
    \/ KFocusGained
    \/ KFocusLost
    \/ KSetReadOnly
    \/ KSetMultiLine
    \/ KSetReturnKeyStartsNewLine

SpecKeys == Init /\ [][NextKeys]_vars

\* ------------------------------------------------------------------------
\* SpecTyping: one character typed after the other, long enough for a
\* transaction to reach maxActionsPerTransaction and go past it
\* ------------------------------------------------------------------------
TypingStep(post) ==
    /\ sumSectionLengths(post.sections) <= MaxTypedLen
    /\ Becomes(post)
    /\ lastOp' = Op("other", TRUE)
    /\ UNCHANGED base

TKeyPressed == TypingStep(keyPressed(Ed, "char", "a", <<>>))

NextTyping == TKeyPressed

SpecTyping == Init /\ [][NextTyping]_vars

\* ------------------------------------------------------------------------
\* SpecWords: words typed in changing fonts into a wrapping editor as wide
\* as a few characters
\* ------------------------------------------------------------------------
WordsTexts == {<<>>, <<SP>>, <<"c", SP>>}
WordsInserts == {<<"a">>, <<SP>>, <<LF>>}
WordsWidths == {MaxWordsWidth - 1, MaxWordsWidth}

WordsStep(post) ==
    /\ sumSectionLengths(post.sections) <= MaxWordsLen
    /\ Becomes(post)
    /\ lastOp' = Op("other", TRUE)
    /\ UNCHANGED base

WSetText == \E t \in WordsTexts : WordsStep(setText(Ed, t))
WInsertTextAtCaret == \E t \in WordsInserts : WordsStep(insertTextAtCaret(Ed, t))
WSetFont == \E f \in Fonts : WordsStep(setFont(Ed, f))
WSetMultiLine == WordsStep(setMultiLine(Ed, TRUE, TRUE))
WViewportResized == \E w \in WordsWidths : WordsStep(viewportResized(Ed, w, 1))

NextWords ==
    \/ WSetText
    \/ WInsertTextAtCaret
    \/ WSetFont
    \/ WSetMultiLine
    \/ WViewportResized

SpecWords == Init /\ [][NextWords]_vars

\* ------------------------------------------------------------------------
\* SpecColour: text typed in changing fonts while the colour and the font of
\* the whole text are set
\* ------------------------------------------------------------------------
Colours == {textColour, 2}

ColourStep(post) ==
    /\ sumSectionLengths(post.sections) <= MaxColourLen
    /\ Becomes(post)
    /\ lastOp' = Op("other", TRUE)
    /\ UNCHANGED base

ColInsertTextAtCaret == ColourStep(insertTextAtCaret(Ed, <<"a">>))
ColSetFont == \E f \in Fonts : ColourStep(setFont(Ed, f))
ColSetCaretPosition ==
    \E i \in 0..sumSectionLengths(sections) : ColourStep(setCaretPosition(Ed, i))
ColApplyColourToAllText == \E c \in Colours : ColourStep(applyColourToAllText(Ed, c))
ColApplyFontToAllText == \E f \in Fonts : ColourStep(applyFontToAllText(Ed, f, TRUE))

NextColour ==
    \/ ColInsertTextAtCaret
    \/ ColSetFont
    \/ ColSetCaretPosition
    \/ ColApplyColourToAllText
    \/ ColApplyFontToAllText

SpecColour == Init /\ [][NextColour]_vars

\* ------------------------------------------------------------------------
\* SpecRestrict: text typed, pasted, cut and deleted, undone and redone, in
\* an editor whose host sets an input restriction at some time
\* ------------------------------------------------------------------------
RestrictTexts == {<<"a">>, <<"a", "b", "a">>}
RestrictChars == {<<>>, <<"a">>}
RestrictKeys == {"char", "backspace", "delete", "selectAll"}

RestrictStep(name, post) ==
    /\ sumSectionLengths(post.sections) <= MaxRestrictLen
    /\ countActions(post.transactions) <= MaxRestrictActions
    /\ Becomes(post)
    /\ lastOp' = Op(name, TRUE)
    /\ UNCHANGED base

RSetInputRestrictions ==
    \E chars \in RestrictChars :
        RestrictStep("other", setInputRestrictions(Ed, MaxRestriction, chars))
RInsertTextAtCaret == \E t \in RestrictTexts : RestrictStep("edit", insertTextAtCaret(Ed, t))
RKeyPressed ==
    \E key \in RestrictKeys : RestrictStep("edit", keyPressed(Ed, key, "b", <<>>))
RPaste == \E clip \in RestrictTexts : RestrictStep("edit", paste(Ed, clip))
RCut == RestrictStep("edit", cut(Ed))
RDeleteBackwards == RestrictStep("edit", deleteBackwards(Ed, FALSE))
RDeleteForwards == RestrictStep("edit", deleteForwards(Ed))
RUndo == RestrictStep("undo", undo(Ed).ed)
RRedo == RestrictStep("redo", redo(Ed).ed)

NextRestrict ==
    \/ RSetInputRestrictions
    \/ RInsertTextAtCaret
    \/ RKeyPressed
    \/ RPaste
    \/ RCut
    \/ RDeleteBackwards
    \/ RDeleteForwards
    \/ RUndo
    \/ RRedo

SpecRestrict == Init /\ [][NextRestrict]_vars

\* ------------------------------------------------------------------------
\* SpecClipboard: text typed, selected, copied, cut and pasted while the
\* password character is set and taken away
\* ------------------------------------------------------------------------
ClipboardTexts == {<<"a">>, <<"b">>}

ClipboardStep(name, post) ==
    /\ sumSectionLengths(post.sections) <= MaxClipLen
    /\ countActions(post.transactions) <= MaxClipActions
    /\ Becomes(post)
    /\ lastOp' = Op(name, TRUE)
    /\ UNCHANGED base

BInsertTextAtCaret ==
    \E t \in ClipboardTexts : ClipboardStep("other", insertTextAtCaret(Ed, t))
BSelectAll == ClipboardStep("other", selectAll(Ed))
BSetPasswordCharacter ==
    \E c \in PasswordCharacters : ClipboardStep("other", setPasswordCharacter(Ed, c))
BCopyToClipboard == ClipboardStep("copyToClipboard", copyToClipboard(Ed))
BCutToClipboard == ClipboardStep("cutToClipboard", cutToClipboard(Ed))
BPasteFromClipboard == ClipboardStep("other", pasteFromClipboard(Ed, clipboard))
BKeyPressed ==
    \E key \in {"copy", "cut"} : ClipboardStep("other", keyPressed(Ed, key, "a", clipboard))

NextClipboard ==
    \/ BInsertTextAtCaret
    \/ BSelectAll
    \/ BSetPasswordCharacter
    \/ BCopyToClipboard
    \/ BCutToClipboard
    \/ BPasteFromClipboard
    \/ BKeyPressed

SpecClipboard == Init /\ [][NextClipboard]_vars

\* ------------------------------------------------------------------------
\* SpecMask: text typed and deleted, undone and redone, while the font of
\* the whole text and the password character change
\* ------------------------------------------------------------------------
MaskTexts == {<<"a">>, <<LF>>, <<"a", LF>>}

MaskStep(post) ==
    /\ sumSectionLengths(post.sections) <= MaxMaskLen
    /\ countActions(post.transactions) <= MaxMaskActions
    /\ Becomes(post)
    /\ lastOp' = Op("other", TRUE)
    /\ UNCHANGED base

MInsertTextAtCaret == \E t \in MaskTexts : MaskStep(insertTextAtCaret(Ed, t))
MDeleteBackwards == MaskStep(deleteBackwards(Ed, FALSE))
MUndo == MaskStep(undo(Ed).ed)
MRedo == MaskStep(redo(Ed).ed)
MSetFont == \E f \in Fonts : MaskStep(setFont(Ed, f))
MSetMultiLine == MaskStep(setMultiLine(Ed, TRUE, FALSE))
MApplyFontToAllText == \E f \in Fonts : MaskStep(applyFontToAllText(Ed, f, TRUE))
MSetPasswordCharacter ==
    \E c \in PasswordCharacters : MaskStep(setPasswordCharacter(Ed, c))

NextMask ==
    \/ MInsertTextAtCaret
    \/ MDeleteBackwards
    \/ MUndo
    \/ MRedo
    \/ MSetFont
    \/ MSetMultiLine
    \/ MApplyFontToAllText
    \/ MSetPasswordCharacter

SpecMask == Init /\ [][NextMask]_vars

\* ------------------------------------------------------------------------
\* SpecDoc: the section list driven through insert and remove with
\* um == nullptr, with indices inside and outside the document
\* ------------------------------------------------------------------------
DocTexts == {<<>>, <<"a">>, <<SP>>, <<CR, LF>>}
\* the indices of the document, and one index on each side of it
DocPositions == -1 .. (sumSectionLengths(sections) + 1)

\* where an insert at insertIndex falls in the section list of ed
insertTag(ed, text, insertIndex) ==
    LET total == sumSectionLengths(ed.sections)
    IN IF text = <<>> THEN "empty"
       ELSE IF insertIndex < 0 \/ insertIndex > total THEN "outside"
       ELSE IF insertIndex = total THEN "end"
       ELSE IF \E k \in 0..Len(ed.sections) :
                  sumSectionLengths(SubSeq(ed.sections, 1, k)) = insertIndex
       THEN "boundary"
       ELSE "inside"

\* how the range from s to e lies in the section list of ed
removeTag(ed, s, e) ==
    LET total == sumSectionLengths(ed.sections)
    IN IF s >= e THEN "empty"
       ELSE IF s < 0 \/ e > total THEN "outside"
       ELSE IF Len(removeSplitLoop(ed.sections, 1, 0, Range(s, e))) > Len(ed.sections)
       THEN "inside"
       ELSE "boundary"

DocStep(name, tag, post) ==
    /\ sumSectionLengths(post.sections) <= MaxDocLen
    /\ Becomes(post)
    /\ lastOp' = OpTag(name, tag)
    /\ UNCHANGED base

\* the caret is told to stay where it is, as setText and clearInternal do
DocInsert ==
    \E t \in DocTexts, i \in DocPositions, f \in Fonts :
        DocStep("insert", insertTag(Ed, t, i),
                insert(Ed, t, i, f, textColour, FALSE, caretPosition))

DocRemove ==
    \E s \in DocPositions, e \in DocPositions :
        DocStep("remove", removeTag(Ed, s, e),
                remove(Ed, Range(s, e), FALSE, caretPosition))

NextDoc ==
    \/ DocInsert
    \/ DocRemove

SpecDoc == Init /\ [][NextDoc]_vars

\* ------------------------------------------------------------------------
\* SpecHistory: the document filled while the undo history is empty, then
\* removals recorded in the history, undone and redone, and the operations
\* that replace or restyle the whole text
\* ------------------------------------------------------------------------
HistTexts == {<<"a">>, <<CR, LF>>}
HistSetTexts == {<<"a", SP>>}

HistStep(name, tag, post) ==
    /\ WithinBounds(post)
    /\ Becomes(post)
    /\ lastOp' = OpTag(name, tag)
    /\ UNCHANGED base

\* insert with um == nullptr, as setText calls it
HistInsert ==
    /\ transactions = <<>>
    /\ \E t \in HistTexts, i \in 0..sumSectionLengths(sections), f \in Fonts :
           HistStep("insert", insertTag(Ed, t, i),
                    insert(Ed, t, i, f, textColour, FALSE, caretPosition))

\* remove with an undo manager, as insertTextAtCaret calls it on the
\* selection, in a transaction of its own
HistRemove ==
    \E s \in 0..sumSectionLengths(sections), e \in 0..sumSectionLengths(sections) :
        /\ s < e
        /\ HistStep("remove", removeTag(Ed, s, e),
                    remove(newTransaction(Ed), Range(s, e), TRUE, s))

HistUndo == UndoStep /\ UNCHANGED base
HistRedo == RedoStep /\ UNCHANGED base
HistSetText == \E t \in HistSetTexts : HistStep("setText", "none", setText(Ed, t))
HistClear == HistStep("clear", "none", clear(Ed))

HistApplyFontToAllText ==
    \E f \in Fonts : HistStep("applyFontToAllText", "none", applyFontToAllText(Ed, f, FALSE))

NextHistory ==
    \/ HistInsert
    \/ HistRemove
    \/ HistUndo
    \/ HistRedo
    \/ HistSetText
    \/ HistClear
    \/ HistApplyFontToAllText

SpecHistory == Init /\ [][NextHistory]_vars

\* ------------------------------------------------------------------------
\* Properties
\* ------------------------------------------------------------------------
\* text with t put in at index i, and text without the characters from s to e
splice(text, i, t) == SubSeq(text, 1, i) \o t \o SubSeq(text, i + 1, Len(text))
cutOut(text, s, e) == SubSeq(text, 1, s) \o SubSeq(text, e + 1, Len(text))

hasChar(text, c) == \E k \in 1..Len(text) : text[k] = c

\* non-empty texts handed to insert
ClaimTexts ==
    {<<"a">>, <<SP>>, <<CR>>, <<CR, LF>>, <<"a", CR, LF>>, <<CR, CR, LF>>}

\* the step recorded one InsertAction, in a transaction of its own
RecordedOneInsert ==
    /\ lastOp'.op = "edit"
    /\ nextIndex' = nextIndex + 1
    /\ Len(transactions') = nextIndex'
    /\ Len(transactions'[nextIndex']) = 1
    /\ transactions'[nextIndex'][1].type = "Insert"

\* C1: when an edit has recorded one Insert in the undo history, undo()
\* brings the text and the total length back to what they were before the
\* insert, and so does undo(); redo(); undo()
InsertThenUndoRestores ==
    [][RecordedOneInsert =>
         LET u1 == undo(EdNext)
             u2 == undo(redo(u1.ed).ed)
         IN /\ u1.ret
            /\ getText(u1.ed) = getText(Ed)
            /\ totalNumCharsValue(u1.ed) = totalNumCharsValue(Ed)
            /\ getText(u2.ed) = getText(Ed)
            /\ totalNumCharsValue(u2.ed) = totalNumCharsValue(Ed)]_vars

UndoAllRestoresBase ==
    (base.phase = "undoing" /\ lastOp.op = "undo" /\ ~ lastOp.ret)
        => getText(Ed) = base.text

\* C4: undo() followed by redo() leaves the text and the total length as
\* they were before the undo()
UndoThenRedoRestores ==
    [][(lastOp'.op = "undo" /\ lastOp'.ret) =>
         LET r == redo(EdNext)
         IN /\ r.ret
            /\ getText(r.ed) = getText(Ed)
            /\ totalNumCharsValue(r.ed) = totalNumCharsValue(Ed)]_vars

\* C5 as the specification words it: insert of a non-empty text t at an
\* index i of the document gives T[0..i) + t + T[i..)
InsertSplicesText ==
    LET text == getText(Ed)
    IN \A t \in ClaimTexts, i \in 0..Len(text), f \in Fonts :
           getText(insert(Ed, t, i, f, textColour, FALSE, i + Len(t)))
               = splice(text, i, t)

\* C5: insert of a non-empty text t at an index i of the document gives
\* T[0..i) + t' + T[i..), where t' is t with every "\r\n" pair collapsed to
\* "\n"; the total length grows by the length of t'
InsertSplicesCollapsedText ==
    LET text == getText(Ed)
    IN \A t \in ClaimTexts, i \in 0..Len(text), f \in Fonts :
           LET post == insert(Ed, t, i, f, textColour, FALSE, i + Len(t))
           IN /\ getText(post) = splice(text, i, replaceCRLFFrom(t, 1))
              /\ totalNumCharsValue(post) = Len(text) + Len(replaceCRLFFrom(t, 1))

\* an insert has split a run, and the document holds a line break
InsertedInsideRun ==
    /\ lastOp.op = "insert"
    /\ lastOp.tag = "inside"
    /\ hasChar(getText(Ed), LF)

\* C6: remove of a non-empty range [s, e) of the document gives
\* T[0..s) + T[e..), and the total length goes down by e - s
RemoveCutsText ==
    LET text == getText(Ed)
    IN \A s \in 0..Len(text), e \in 0..Len(text), useUm \in BOOLEAN :
           s < e =>
               LET post == remove(Ed, Range(s, e), useUm, s)
               IN /\ getText(post) = cutOut(text, s, e)
                  /\ totalNumCharsValue(post) = totalNumCharsValue(Ed) - (e - s)

\* a remove has split a run and left text in the document
RemovedInsideRun ==
    /\ lastOp.op = "remove"
    /\ lastOp.tag = "inside"
    /\ sections # <<>>

\* C7: insert at an index above the length adds the text at the end, insert
\* at an index below 0 adds it at the start, and remove of a range reaching
\* outside the document removes the part of the range inside the document
OutOfRangeIsClamped ==
    LET text == getText(Ed)
    IN /\ \A t \in ClaimTexts, i \in DocPositions, f \in Fonts :
              LET post == insert(Ed, t, i, f, textColour, FALSE, i + Len(t))
              IN /\ i > Len(text) => getText(post) = text \o replaceCRLFFrom(t, 1)
                 /\ i < 0 => getText(post) = replaceCRLFFrom(t, 1) \o text
       /\ \A s \in DocPositions, e \in DocPositions :
              (s < e /\ (s < 0 \/ e > Len(text))) =>
                  getText(remove(Ed, Range(s, e), FALSE, s))
                      = cutOut(text, Max(s, 0), Min(Max(e, 0), Len(text)))

\* C8: insert of an empty text and remove of an empty range, a range given
\* with start > end included, change nothing: sections, caret, selection and
\* undo history stay as they are
EmptyEditChangesNothing ==
    /\ \A i \in DocPositions, f \in Fonts, useUm \in BOOLEAN :
           insert(Ed, <<>>, i, f, textColour, useUm, i) = Ed
    /\ \A s \in DocPositions, e \in DocPositions, useUm \in BOOLEAN :
           s >= e => remove(Ed, Range(s, e), useUm, s) = Ed

\* an insert of an empty text or a remove of an empty range was called on a
\* document that holds text
EmptyEditDone ==
    /\ lastOp.op \in {"insert", "remove"}
    /\ lastOp.tag = "empty"
    /\ Len(sections) > 1

\* C9: undo() with no transaction to undo and redo() with no transaction to
\* redo return false and leave the sections, the text and the caret as they
\* are
NothingToUndoOrRedo ==
    [][/\ (lastOp'.op = "undo" /\ nextIndex = 0) =>
              (~ lastOp'.ret /\ sections' = sections /\ getText(EdNext) = getText(Ed)
                  /\ caretPosition' = caretPosition)
       /\ (lastOp'.op = "redo" /\ nextIndex = Len(transactions)) =>
              (~ lastOp'.ret /\ sections' = sections /\ getText(EdNext) = getText(Ed)
                  /\ caretPosition' = caretPosition)]_vars

\* undo() was called with everything undone already, on a document with text
UndoRefused ==
    /\ lastOp.op = "undo"
    /\ ~ lastOp.ret
    /\ transactions # <<>>
    /\ sections # <<>>

\* C10: getTotalNumChars returns the sum of the lengths of the sections: a
\* cached total is never out of date
TotalIsSumOfSections ==
    totalNumCharsValue(Ed) = sumSectionLengths(sections)

\* a redo has removed text again and the total is cached
TotalCachedAfterRedo ==
    /\ lastOp.op = "redo"
    /\ lastOp.ret
    /\ totalNumChars > 0

\* ------------------------------------------------------------------------
\* Run sequences that were not coalesced yet, made from the section list of
\* a state the way insert makes them: a new section of text t in font f put
\* in before section k (after the last one for k past the end), or between
\* the halves of section k split at offset c
\* ------------------------------------------------------------------------
newSectionAt(secs, k, t, f) ==
    InsertAt(secs, k, <<UniformTextSection(t, f, textColour, NUL)>>)
newSectionInside(secs, k, c, t, f) == newSectionAt(splitSection(secs, k, c), k + 1, t, f)

coalesceKeeps(secs) ==
    /\ concatSectionText(coalesceSimilarSections(secs)) = concatSectionText(secs)
    /\ sumSectionLengths(coalesceSimilarSections(secs)) = sumSectionLengths(secs)

\* C11: coalesceSimilarSections changes the representation only: the text of
\* the run sequence, character by character, and the sum of the run lengths
\* are the same before and after the pass
CoalesceKeepsText ==
    \A t \in ClaimTexts, f \in Fonts :
        /\ \A k \in 1..(Len(sections) + 1) : coalesceKeeps(newSectionAt(sections, k, t, f))
        /\ \A k \in 1..Len(sections) :
               \A c \in 1..(getTotalLength(sections[k]) - 1) :
                   coalesceKeeps(newSectionInside(sections, k, c, t, f))

\* an insert in the middle of a run, in the style of the run, has been
\* coalesced with both halves of the run into one run
CoalescedIntoOneRun ==
    /\ lastOp.op = "insert"
    /\ lastOp.tag = "inside"
    /\ Len(sections) = 1
    /\ sumSectionLengths(sections) = MaxDocLen

\* the style of every character of a run sequence, in order
RECURSIVE stylesOf(_)
stylesOf(secs) ==
    IF secs = <<>> THEN <<>>
    ELSE [n \in 1..getTotalLength(secs[1]) |-> <<secs[1].font, secs[1].colour>>]
         \o stylesOf(Tail(secs))

\* no run is empty and no two adjacent runs have the same font and colour
maximalRuns(secs) ==
    /\ \A k \in 1..Len(secs) : getTotalLength(secs[k]) > 0
    /\ \A k \in 1..(Len(secs) - 1) :
           secs[k].font # secs[k + 1].font \/ secs[k].colour # secs[k + 1].colour

\* C12: after insert, remove and reinsert the run sequence is the maximal
\* same-style segmentation of the text: no two adjacent runs have the same
\* font and colour, and every character has kept its own style, so that runs
\* of different styles were not merged
RunsAreMaximal ==
    LET total == sumSectionLengths(sections)
    IN /\ maximalRuns(sections)
       /\ \A t \in ClaimTexts, f \in Fonts, i \in 0..total :
              LET post == insert(Ed, t, i, f, textColour, FALSE, caretPosition)
                  n == getTotalLength(UniformTextSection(t, f, textColour, NUL))
              IN /\ maximalRuns(post.sections)
                 /\ stylesOf(post.sections)
                       = splice(stylesOf(sections), i, [k \in 1..n |-> <<f, textColour>>])
       /\ \A s \in 0..total, e \in 0..total :
              s < e =>
                  LET cut1 == removeSplitLoop(sections, 1, 0, Range(s, e))
                      post == remove(Ed, Range(s, e), FALSE, caretPosition)
                      back == reinsert(post, s, removedSectionsFrom(cut1, 1, 0, Range(s, e)))
                  IN /\ maximalRuns(post.sections)
                     /\ stylesOf(post.sections) = cutOut(stylesOf(sections), s, e)
                     /\ maximalRuns(back.sections)
                     /\ stylesOf(back.sections) = stylesOf(sections)

\* two single characters of different fonts were inserted at index 0, one
\* after the other, and the document has two runs
TwoStylesTwoRuns ==
    /\ lastOp.op = "insert"
    /\ lastOp.tag = "boundary"
    /\ Len(sections) = 2
    /\ sumSectionLengths(sections) = 2
    /\ sections[1].font # sections[2].font

\* ------------------------------------------------------------------------
\* The tokenizer on its own
\* ------------------------------------------------------------------------
\* the texts of up to MaxFragment characters, the "ab cd" of the example and
\* the text of the document
FragmentChars == {"a", SP, CR, LF}
Fragments ==
    UNION {[1..n -> FragmentChars] : n \in 0..MaxFragment}
        \cup {<<"a", "b", SP, "b", "a">>, getText(Ed)}

\* C13, as stated: the atoms of a fragment, concatenated, are the fragment,
\* and their character counts sum to its length
TokensCoverFragment ==
    \A t \in Fragments :
        /\ concatAtomText(initialiseAtoms(t)) = t
        /\ sumNumChars(initialiseAtoms(t)) = Len(t)

\* C13, amended: the atoms of a fragment, concatenated, are the fragment
\* with every "\r\n" pair, found from left to right, replaced by its "\n",
\* and their character counts sum to the length of that text; "ab cd" gives
\* the three atoms "ab", " ", "cd" of 5 characters in all
TokensCoverCollapsedFragment ==
    /\ \A t \in Fragments :
           /\ concatAtomText(initialiseAtoms(t)) = replaceCRLFFrom(t, 1)
           /\ sumNumChars(initialiseAtoms(t)) = Len(replaceCRLFFrom(t, 1))
    /\ initialiseAtoms(<<"a", "b", SP, "b", "a">>)
         = <<TextAtom(<<"a", "b">>, 2), TextAtom(<<SP>>, 1), TextAtom(<<"b", "a">>, 2)>>

\* an insert has tokenized a text with a "\r\n" pair: the document holds a
\* newline atom whose text is "\n"
TokenizedPair ==
    /\ lastOp.op = "insert"
    /\ \E k \in 1..Len(sections) :
           \E n \in 1..Len(sections[k].atoms) : sections[k].atoms[n].atomText = <<LF>>

\* ------------------------------------------------------------------------
\* The atoms of the document
\* ------------------------------------------------------------------------
\* a single newline, a run of whitespace that is not a newline, or a run of
\* characters that are not whitespace
atomIsNewLine(atom) == Len(atom.atomText) = 1 /\ atom.atomText[1] \in {CR, LF}
atomIsSpace(atom) ==
    \A n \in 1..Len(atom.atomText) :
        isWhitespace(atom.atomText[n]) /\ atom.atomText[n] \notin {CR, LF}
atomIsWord(atom) == \A n \in 1..Len(atom.atomText) : ~ isWhitespace(atom.atomText[n])

atomsWellFormed(secs) ==
    \A k \in 1..Len(secs) :
        \A n \in 1..Len(secs[k].atoms) :
            /\ secs[k].atoms[n].atomText # <<>>
            /\ secs[k].atoms[n].numChars > 0
            /\ \/ atomIsNewLine(secs[k].atoms[n])
               \/ atomIsSpace(secs[k].atoms[n])
               \/ atomIsWord(secs[k].atoms[n])

\* texts handed to insert to look at the atoms it leaves
AtomTexts == ClaimTexts \cup {<<SP, SP>>, <<"a", SP, "a">>, <<"a", LF, SP>>}

\* C14: in every state of the document, and after every further insert,
\* remove and reinsert, every atom is non-empty and is a single newline, a
\* run of whitespace without a newline, or a run without whitespace
AtomsAreWellFormed ==
    LET total == sumSectionLengths(sections)
    IN /\ atomsWellFormed(sections)
       /\ \A t \in AtomTexts, f \in Fonts, i \in 0..total :
              atomsWellFormed(insert(Ed, t, i, f, textColour, FALSE, caretPosition).sections)
       /\ \A s \in 0..total, e \in 0..total :
              s < e =>
                  LET cut1 == removeSplitLoop(sections, 1, 0, Range(s, e))
                      post == remove(Ed, Range(s, e), FALSE, caretPosition)
                  IN /\ atomsWellFormed(cut1)
                     /\ atomsWellFormed(post.sections)
                     /\ atomsWellFormed(
                            reinsert(post, s, removedSectionsFrom(cut1, 1, 0, Range(s, e))).sections)

\* a removal inside a run has brought two words together, which append has
\* joined into one atom
WordsJoined ==
    /\ lastOp.op = "remove"
    /\ lastOp.tag = "inside"
    /\ \E k \in 1..Len(sections) :
           \E n \in 1..Len(sections[k].atoms) : sections[k].atoms[n].numChars = 2

\* ------------------------------------------------------------------------
\* Layout height
\* ------------------------------------------------------------------------
RECURSIVE numNewLineAtoms(_)
numNewLineAtoms(atoms) ==
    IF atoms = <<>> THEN 0
    ELSE (IF isNewLine(atoms[1]) THEN 1 ELSE 0) + numNewLineAtoms(Tail(atoms))

\* the document has one style, the one the editor types in
singleStyle(ed) ==
    \/ ed.sections = <<>>
    \/ Len(ed.sections) = 1 /\ ed.sections[1].font = ed.currentFont

\* the atoms of a document of at most one section
onlyAtoms(ed) == IF ed.sections = <<>> THEN <<>> ELSE ed.sections[1].atoms

\* C15: with word wrap off, one style, line spacing 1 and top justification,
\* getTotalTextHeight() is the line height times the number of newline atoms
\* plus one, for every document: the empty one and those that end with a
\* newline included.
TotalHeightCountsLines ==
    (~ wordWrap /\ "top" \in justification /\ singleStyle(Ed))
        => \A offsetFirst \in BOOLEAN :
              getTotalTextHeight(Ed, offsetFirst)
                  = getHeight(currentFont) * (numNewLineAtoms(onlyAtoms(Ed)) + 1)

\* ------------------------------------------------------------------------
\* Long atoms
\* ------------------------------------------------------------------------
\* what next() shows each time it returns true, from the iterator it to the
\* end: the atom of the document it is at, the index of its first character,
\* its characters and its line
RECURSIVE placements(_, _)
placements(ed, it) ==
    IF next(ed, it).ret
    THEN <<[section |-> next(ed, it).it.currentSection,
            atom |-> next(ed, it).it.atomIndex - 1,
            indexInText |-> next(ed, it).it.indexInText,
            numChars |-> next(ed, it).it.atom[1].numChars,
            chars |-> SubSeq(next(ed, it).it.atom[1].atomText, 1,
                             next(ed, it).it.atom[1].numChars),
            lineY |-> next(ed, it).it.lineY]>>
         \o placements(ed, next(ed, it).it)
    ELSE <<>>

\* the placements of the atom at atomIndex of the section at sectionIndex
placementsOf(ed, sectionIndex, atomIndex) ==
    LET isOfAtom(p) == p.section = sectionIndex /\ p.atom = atomIndex
    IN SelectSeq(placements(ed, Iterator(ed)), isOfAtom)

RECURSIVE charsOf(_)
charsOf(ps) == IF ps = <<>> THEN <<>> ELSE ps[1].chars \o charsOf(Tail(ps))

RECURSIVE numCharsOf(_)
numCharsOf(ps) == IF ps = <<>> THEN 0 ELSE ps[1].numChars + numCharsOf(Tail(ps))

\* the index in the document of the first character of an atom
RECURSIVE numCharsOfAtoms(_)
numCharsOfAtoms(atoms) ==
    IF atoms = <<>> THEN 0 ELSE atoms[1].numChars + numCharsOfAtoms(Tail(atoms))

indexOfAtom(ed, sectionIndex, atomIndex) ==
    sumSectionLengths(SubSeq(ed.sections, 1, sectionIndex))
        + numCharsOfAtoms(SubSeq(ed.sections[sectionIndex + 1].atoms, 1, atomIndex))

\* the atoms of the document that are not whitespace and at least as wide as
\* the wrap width
oversizedAtoms(ed) ==
    {sa \in UNION {{<<k - 1, a - 1>> : a \in 1..Len(ed.sections[k].atoms)}
                        : k \in 1..Len(ed.sections)} :
        /\ ~ atomIsWhitespace(atomAt(ed, sa[1], sa[2]))
        /\ atomAt(ed, sa[1], sa[2]).width >= getWordWrapWidth(ed)}

chunksCover(ed, sa) ==
    LET ps == placementsOf(ed, sa[1], sa[2])
    IN /\ ps # <<>>
       /\ numCharsOf(ps) = atomAt(ed, sa[1], sa[2]).numChars
       /\ charsOf(ps) = atomAt(ed, sa[1], sa[2]).atomText
       /\ ps[1].indexInText = indexOfAtom(ed, sa[1], sa[2])
       /\ \A n \in 1..(Len(ps) - 1) :
              /\ ps[n + 1].indexInText = ps[n].indexInText + ps[n].numChars
              /\ ps[n + 1].lineY > ps[n].lineY

\* C16: next() shows an atom that is not whitespace and at least as wide as
\* the wrap width as chunks whose character counts add up to the atom's,
\* that follow one another in the text with no character left out or shown
\* twice, each chunk on a line below the chunk before it.
ChunksCoverLongAtom == \A sa \in oversizedAtoms(Ed) : chunksCover(Ed, sa)

\* a word of three characters is shown as three chunks
LongWordInChunks ==
    /\ wordWrap
    /\ \E sa \in oversizedAtoms(Ed) :
          /\ atomAt(Ed, sa[1], sa[2]).numChars = 3
          /\ Len(placementsOf(Ed, sa[1], sa[2])) = 3

\* ------------------------------------------------------------------------
\* Caret and selection
\* ------------------------------------------------------------------------
\* C17: after any sequence of caret moves, edits, undo, redo, setText and
\* clear the caret is at an index from 0 to the length of the document.
CaretInDocument ==
    0 <= caretPosition /\ caretPosition <= sumSectionLengths(sections)

\* undo has taken the text typed out of the document and the caret with it
CaretBackAfterUndo ==
    /\ lastOp.op = "undo" /\ lastOp.ret
    /\ sections = <<>> /\ caretPosition = 0
    /\ nextIndex < Len(transactions)

\* C18: after any sequence of caret, selection and editing operations and
\* mouse events the selection lies in the document, 0 <= start <= end <=
\* length, and the caret is at its start or at its end.
SelectionHoldsCaret ==
    /\ 0 <= selection.start /\ selection.start <= selection.end
    /\ selection.end <= sumSectionLengths(sections)
    /\ caretPosition \in {selection.start, selection.end}

\* ------------------------------------------------------------------------
\* Text of a range and the password character
\* ------------------------------------------------------------------------
\* the ranges that lie in the document or reach one index out of it
RangesAround(ed) ==
    {r \in [start : -1 .. (sumSectionLengths(ed.sections) + 1),
            end : -1 .. (sumSectionLengths(ed.sections) + 1)] : r.start <= r.end}

\* the characters of the document that a range covers
coveredText(ed, r) ==
    SubSeq(getText(ed), Max(r.start, 0) + 1, Min(r.end, sumSectionLengths(ed.sections)))

\* C19 (as claimed): getTextInRange applies masking: with a password
\* character set it returns that character once per character covered, and
\* without one the real characters.
TextInRangeIsMasked ==
    \A r \in RangesAround(Ed) :
        getTextInRange(Ed, r)
            = IF passwordCharacter = NUL THEN coveredText(Ed, r)
              ELSE [n \in 1..Len(coveredText(Ed, r)) |-> passwordCharacter]

\* C19 (amended): getTextInRange returns the real characters that the range
\* covers whether a password character is set or not; the password character
\* replaces the text of an atom only where TextAtom::getText is asked for it,
\* for display and measurement, with one password character per character.
TextInRangeIsRealText ==
    /\ \A r \in RangesAround(Ed) : getTextInRange(Ed, r) = coveredText(Ed, r)
    /\ \A k \in 1..Len(sections) : \A a \in 1..Len(sections[k].atoms) :
          atomGetText(sections[k].atoms[a], passwordCharacter)
              = IF passwordCharacter = NUL THEN sections[k].atoms[a].atomText
                ELSE [n \in 1..Len(sections[k].atoms[a].atomText) |-> passwordCharacter]

\* a document of several characters in an editor with a password character
MaskedDocument ==
    /\ passwordCharacter # NUL
    /\ sumSectionLengths(sections) >= 3
    /\ \A n \in 1..Len(getText(Ed)) : getText(Ed)[n] # passwordCharacter
    /\ getTextInRange(Ed, [start |-> 1, end |-> 3]) = SubSeq(getText(Ed), 2, 3)

\* ------------------------------------------------------------------------
\* Change notification
\* ------------------------------------------------------------------------
\* C20: with a host listening, no operation that changes the text of the
\* document completes without a change notification posted for it (setText
\* told not to send one apart).
MutationIsNotified ==
    [][(listeners # 0 /\ getText(EdNext) # getText(Ed) /\ lastOp'.tag # "silent")
          => commandMessages' > commandMessages]_vars

\* ------------------------------------------------------------------------
\* The host boundary
\* ------------------------------------------------------------------------
\* C21: while the editor is read-only no editing entry point changes the
\* text: a key, paste, cut, deleteBackwards, deleteForwards,
\* insertTextAtCaret, undo and redo leave it as it is, and undo and redo
\* return false.
ReadOnlyRejectsEdits ==
    readOnly =>
        /\ \A key \in Keys, c \in KeyChars, clip \in Clips :
              getText(keyPressed(Ed, key, c, clip)) = getText(Ed)
        /\ \A clip \in Clips : getText(paste(Ed, clip)) = getText(Ed)
        /\ getText(cut(Ed)) = getText(Ed)
        /\ \A w \in BOOLEAN : getText(deleteBackwards(Ed, w)) = getText(Ed)
        /\ getText(deleteForwards(Ed)) = getText(Ed)
        /\ \A t \in InsertTexts : getText(insertTextAtCaret(Ed, t)) = getText(Ed)
        /\ ~ undo(Ed).ret /\ getText(undo(Ed).ed) = getText(Ed)
        /\ ~ redo(Ed).ret /\ getText(redo(Ed).ed) = getText(Ed)

\* C22: no transaction ever holds more actions than
\* maxActionsPerTransaction: an action recorded while the open transaction
\* holds that many goes into a new transaction.
TransactionsWithinCap ==
    \A k \in 1..Len(transactions) : Len(transactions[k]) <= maxActionsPerTransaction

\* ------------------------------------------------------------------------
\* Transaction boundaries
\* ------------------------------------------------------------------------
\* the editor after each of the events that signal a transaction boundary:
\* the idle timer, mouse down and up, a caret command, the return key when
\* it starts no new line, a focus change
afterBoundary(ed) ==
    {timerCallbackInt(ed, TRUE), focusGained(ed), focusLost(ed),
     keyPressed([ed EXCEPT !.returnKeyStartsNewLine = FALSE], "return", "a", <<>>),
     keyPressed(ed, "left", "a", <<>>), keyPressed(ed, "right", "a", <<>>)}
    \cup {mouseDown(ed, TRUE, index, FALSE, FALSE) :
              index \in 0..sumSectionLengths(ed.sections)}
    \cup {mouseUp(mouseDown(ed, TRUE, index, FALSE, FALSE), index, TRUE, FALSE) :
              index \in 0..sumSectionLengths(ed.sections)}

\* a text character typed
typed(ed, c) == keyPressed(ed, "char", c, <<>>)

\* C23: two edits with a transaction boundary between them are undone by
\* two calls of undo, two edits with none between them by one.
BoundarySeparatesUndo ==
    ~ readOnly =>
        \A c1 \in KeyChars, c2 \in KeyChars :
            /\ getText(undo(typed(typed(newTransaction(Ed), c1), c2)).ed) = getText(Ed)
            /\ \A b \in afterBoundary(typed(newTransaction(Ed), c1)) :
                  /\ getText(undo(typed(b, c2)).ed)
                        = getText(typed(newTransaction(Ed), c1))
                  /\ getText(undo(undo(typed(b, c2)).ed).ed) = getText(Ed)

\* two characters typed with a boundary between them: two transactions of
\* one InsertAction each, which two calls of undo take back one by one
TypedInTwoTransactions ==
    /\ Len(transactions) = 2 /\ nextIndex = 2
    /\ \A k \in 1..2 : Len(transactions[k]) = 1 /\ transactions[k][1].type = "Insert"
    /\ Len(getText(Ed)) = 2
    /\ Len(getText(undo(Ed).ed)) = 1
    /\ getText(undo(undo(Ed).ed).ed) = <<>>

\* ------------------------------------------------------------------------
\* The caret after undo and redo
\* ------------------------------------------------------------------------
\* p brought into the document of ed
clampedInto(ed, p) == Max(0, Min(p, sumSectionLengths(ed.sections)))

caretIsAt(ed, p) ==
    /\ ed.caretPosition = clampedInto(ed, p)
    /\ ed.selection = emptyRange(ed.caretPosition)

\* C24: after undo of a transaction the caret is at the caret recorded
\* before its first action, after redo at the caret recorded after its last
\* action, each brought into the document, with the selection empty at the
\* caret.
UndoRedoRestoreCaret ==
    ~ readOnly =>
        /\ umCanUndo(Ed) =>
              caretIsAt(undo(Ed).ed, transactions[nextIndex][1].oldCaretPos)
        /\ umCanRedo(Ed) =>
              caretIsAt(redo(Ed).ed,
                        transactions[nextIndex + 1][Len(transactions[nextIndex + 1])].newCaretPos)

\* a selection replaced by a typed character, undone: the caret is back where
\* it was before the Remove that the transaction starts with
CaretBackBeforeReplace ==
    /\ nextIndex < Len(transactions)
    /\ Len(transactions[nextIndex + 1]) = 2
    /\ transactions[nextIndex + 1][1].type = "Remove"
    /\ transactions[nextIndex + 1][2].type = "Insert"
    /\ caretPosition = transactions[nextIndex + 1][1].oldCaretPos
    /\ caretPosition # transactions[nextIndex + 1][2].newCaretPos
    /\ selection = emptyRange(caretPosition)

\* ------------------------------------------------------------------------
\* Words inside a run
\* ------------------------------------------------------------------------
\* no section has two atoms next to each other that are both not whitespace
wordsAreWhole(secs) ==
    \A k \in 1..Len(secs) :
        \A n \in 1..(Len(secs[k].atoms) - 1) :
            \/ isWhitespace(charAt(secs[k].atoms[n].atomText, 1))
            \/ isWhitespace(charAt(secs[k].atoms[n + 1].atomText, 1))

\* C25: after any sequence of insert, remove and reinsert no run has two
\* adjacent atoms that are both not whitespace: a word inside one run is one
\* atom, also when its pieces were once in different runs.
WordsStayWhole ==
    LET total == sumSectionLengths(sections)
    IN /\ wordsAreWhole(sections)
       /\ \A t \in AtomTexts, f \in Fonts, i \in 0..total :
              wordsAreWhole(insert(Ed, t, i, f, textColour, FALSE, caretPosition).sections)
       /\ \A s \in 0..total, e \in 0..total :
              s < e =>
                  LET cut1 == removeSplitLoop(sections, 1, 0, Range(s, e))
                      post == remove(Ed, Range(s, e), FALSE, caretPosition)
                      back == reinsert(post, s, removedSectionsFrom(cut1, 1, 0, Range(s, e)))
                  IN /\ wordsAreWhole(post.sections)
                     /\ wordsAreWhole(back.sections)

\* a word of three characters put together from three inserts is one atom
WordFromThreeInserts ==
    /\ lastOp.op = "insert"
    /\ Len(sections) = 1
    /\ Len(sections[1].atoms) = 1
    /\ sections[1].atoms[1].atomText = <<"a", "a", "a">>

\* ------------------------------------------------------------------------
\* The line the iterator lays out
\* ------------------------------------------------------------------------
\* the iterator after each call of next() that returns true, from the
\* iterator it to the end
RECURSIVE shown(_, _)
shown(ed, it) ==
    IF next(ed, it).ret THEN <<next(ed, it).it>> \o shown(ed, next(ed, it).it) ELSE <<>>

\* every glyph of every section is narrower than the wrap width
glyphsAreNarrower(ed) ==
    \A k \in 1..Len(ed.sections) :
        getStringWidthFloat(ed.sections[k].font, <<"a">>) < getWordWrapWidth(ed)

centredTop == {"horizontallyCentred", "top"}

withinWrapWidth(ed) ==
    \A n \in 1..Len(shown(ed, Iterator(ed))) :
        /\ shown(ed, Iterator(ed))[n].atomX >= 0
        /\ shown(ed, Iterator(ed))[n].atomRight <= getWordWrapWidth(ed)

\* C26: with word wrap on and every glyph narrower than the wrap width, each
\* atom that next() shows has its left edge at 0 or more and its right edge
\* at the wrap width or less, for every justification.
PlacementsWithinWrapWidth ==
    (wordWrap /\ glyphsAreNarrower(Ed))
        => \A j \in {justification, centredTop} :
              withinWrapWidth(setJustification(Ed, j))

\* a space that does not fit stays on its line, and the word after it starts
\* the next line
SpaceKeptOnFullLine ==
    /\ wordWrap /\ glyphsAreNarrower(Ed)
    /\ \E n \in 1..(Len(shown(Ed, Iterator(Ed))) - 1) :
          /\ atomIsWhitespace(shown(Ed, Iterator(Ed))[n].atom[1])
          /\ ~ isNewLine(shown(Ed, Iterator(Ed))[n].atom[1])
          /\ shown(Ed, Iterator(Ed))[n].atomX + shown(Ed, Iterator(Ed))[n].atom[1].width
                 > getWordWrapWidth(Ed)
          /\ shown(Ed, Iterator(Ed))[n].atomRight = getWordWrapWidth(Ed)
          /\ shown(Ed, Iterator(Ed))[n + 1].lineY > shown(Ed, Iterator(Ed))[n].lineY

\* ------------------------------------------------------------------------
\* Words that go on over sections
\* ------------------------------------------------------------------------
\* the last section that the word going on into section reaches, and
\* section - 1 if no word goes on into it
RECURSIVE wordReach(_, _)
wordReach(ed, section) ==
    IF section >= Len(ed.sections) THEN section - 1
    ELSE IF ed.sections[section + 1].atoms = <<>> THEN section - 1
    ELSE IF atomIsWhitespace(atomAt(ed, section, 0)) THEN section - 1
    ELSE IF Len(ed.sections[section + 1].atoms) > 1 THEN section
    ELSE wordReach(ed, section + 1)

\* the sections whose last atom starts a word that goes on into the sections
\* that follow
wordStarts(ed) ==
    {s \in 0..(Len(ed.sections) - 1) :
        /\ ed.sections[s + 1].atoms # <<>>
        /\ ~ atomIsWhitespace(atomAt(ed, s, Len(ed.sections[s + 1].atoms) - 1))
        /\ wordReach(ed, s + 1) > s
        /\ \/ Len(ed.sections[s + 1].atoms) > 1
           \/ s = 0
           \/ ed.sections[s].atoms = <<>>
           \/ atomIsWhitespace(atomAt(ed, s - 1, Len(ed.sections[s].atoms) - 1))}

\* the atoms of the word that starts with the last atom of section s
wordAtoms(ed, s) ==
    {<<s, Len(ed.sections[s + 1].atoms) - 1>>}
        \cup {<<k, 0>> : k \in (s + 1)..wordReach(ed, s + 1)}

RECURSIVE wordWidthFrom(_, _, _)
wordWidthFrom(ed, k, last) ==
    IF k > last THEN 0 ELSE atomAt(ed, k, 0).width + wordWidthFrom(ed, k + 1, last)

wordWidth(ed, s) ==
    atomAt(ed, s, Len(ed.sections[s + 1].atoms) - 1).width
        + wordWidthFrom(ed, s + 1, wordReach(ed, s + 1))

\* the lines on which next() shows the atoms of the word
wordLines(ed, s) ==
    {placements(ed, Iterator(ed))[n].lineY :
        n \in {m \in 1..Len(placements(ed, Iterator(ed))) :
                  <<placements(ed, Iterator(ed))[m].section,
                    placements(ed, Iterator(ed))[m].atom>> \in wordAtoms(ed, s)}}

\* C27: a word made of the last atom of a section and the first atoms of the
\* sections that follow, narrower than the wrap width, is shown on one line.
WordOnOneLine ==
    wordWrap =>
        \A s \in wordStarts(Ed) :
            wordWidth(Ed, s) < getWordWrapWidth(Ed) => Cardinality(wordLines(Ed, s)) = 1

\* ------------------------------------------------------------------------
\* The height of a line
\* ------------------------------------------------------------------------
\* the greatest of a set of heights
greatest(hs) == CHOOSE h \in hs : \A g \in hs : g <= h

\* the heights of the fonts of the sections that next() shows an atom of on
\* the line at lineY
heightsOnLine(ed, lineY) ==
    {getHeight(ed.sections[shown(ed, Iterator(ed))[m].currentSection + 1].font) :
        m \in {k \in 1..Len(shown(ed, Iterator(ed))) :
                  shown(ed, Iterator(ed))[k].lineY = lineY}}

\* C28: the line height of the iterator at each atom it shows is the
\* greatest font height of the sections with an atom on the line of that
\* atom, on the first line as on the others.
LineHeightIsGreatestFont ==
    \A n \in 1..Len(shown(Ed, Iterator(Ed))) :
        shown(Ed, Iterator(Ed))[n].lineHeight
            = greatest(heightsOnLine(Ed, shown(Ed, Iterator(Ed))[n].lineY))

\* ------------------------------------------------------------------------
\* The iterator goes forward only
\* ------------------------------------------------------------------------
\* the characters from indexInText of an atom that next() shows follow those
\* of the atom before it, the first starts at 0 and the last ends at end
consecutive(its, end) ==
    /\ its # <<>> => its[1].indexInText = 0
    /\ \A n \in 1..(Len(its) - 1) :
          its[n + 1].indexInText = its[n].indexInText + its[n].atom[1].numChars
    /\ end = (IF its = <<>> THEN 0
              ELSE its[Len(its)].indexInText + its[Len(its)].atom[1].numChars)

\* neither indexInText nor lineY goes down from one iterator to the next
forwardOnly(its) ==
    \A n \in 1..(Len(its) - 1) :
        /\ its[n].indexInText <= its[n + 1].indexInText
        /\ its[n].lineY <= its[n + 1].lineY

\* C29: the atoms that next() shows from a new iterator to the end cover the
\* characters from 0 to the length of the document one after the other, and
\* indexInText and lineY never go down from one call to the next, the last
\* call that returns false included.
IteratorGoesForward ==
    /\ consecutive(shown(Ed, Iterator(Ed)), sumSectionLengths(sections))
    /\ forwardOnly(<<Iterator(Ed)>> \o shown(Ed, Iterator(Ed))
                      \o <<moveToEnd(Ed, Iterator(Ed))>>)

\* a document of two lines with a word in chunks shown to its end
ShownOverLinesAndChunks ==
    /\ wordWrap
    /\ Len(shown(Ed, Iterator(Ed))) >= 4
    /\ \E n \in 1..Len(shown(Ed, Iterator(Ed))) : shown(Ed, Iterator(Ed))[n].atomIsLongAtom
    /\ \E n \in 1..Len(shown(Ed, Iterator(Ed))) : isNewLine(shown(Ed, Iterator(Ed))[n].atom[1])
    /\ moveToEnd(Ed, Iterator(Ed)).lineY > 0

\* ------------------------------------------------------------------------
\* The iterator comes to its end
\* ------------------------------------------------------------------------
\* next() returns false after it has returned true steps times at most
RECURSIVE endsWithin(_, _, _)
endsWithin(ed, it, steps) ==
    IF ~ next(ed, it).ret THEN TRUE
    ELSE IF steps = 0 THEN FALSE
    ELSE endsWithin(ed, next(ed, it).it, steps - 1)

RECURSIVE totalAtoms(_)
totalAtoms(secs) ==
    IF secs = <<>> THEN 0 ELSE Len(secs[1].atoms) + totalAtoms(Tail(secs))

\* C30: for every document and every wrap width from 1 on, narrower than a
\* glyph or not, next() returns false after one step for each character and
\* one for each atom at most.
IteratorComesToEnd ==
    \A w \in 1..MaxTextWidth :
        endsWithin(viewportResized(Ed, w, maximumTextHeight),
                   Iterator(viewportResized(Ed, w, maximumTextHeight)),
                   sumSectionLengths(sections) + totalAtoms(sections))

\* a wrapping document of two runs, the glyphs of one of them wider than
\* the wrap width, shown to its end with one step for each of its characters
EndOfNarrowDocument ==
    /\ wordWrap
    /\ Len(sections) = 2
    /\ \E k \in 1..Len(sections) :
          getStringWidthFloat(sections[k].font, <<"a">>) > getWordWrapWidth(Ed)
    /\ sumSectionLengths(sections) >= 3
    /\ Len(shown(Ed, Iterator(Ed))) = sumSectionLengths(sections)
    /\ ~ next(Ed, moveToEnd(Ed, Iterator(Ed))).ret

\* ------------------------------------------------------------------------
\* From an index to a position and back
\* ------------------------------------------------------------------------
\* every atom of the document has a width above 0
allWidthsPositive(ed) ==
    \A k \in 1..Len(ed.sections) :
        \A n \in 1..Len(ed.sections[k].atoms) : atomAt(ed, k - 1, n - 1).width > 0

\* the atoms next() shows keep their whole width: none is cut at the wrap
\* width
nothingClamped(ed) ==
    \A n \in 1..Len(shown(ed, Iterator(ed))) :
        shown(ed, Iterator(ed))[n].atomRight
            = shown(ed, Iterator(ed))[n].atomX + shown(ed, Iterator(ed))[n].atom[1].width

\* indexAtPosition at the anchor of each index is that index
positionsGiveIndices(ed) ==
    \A i \in 0..sumSectionLengths(ed.sections) :
        indexAtPosition(ed, getCharPosition(ed, i).x, getCharPosition(ed, i).y) = i

\* points left of, in, right of, above, in and below the text
ProbeXs == {0 - 1, 1, MaxTextWidth + 1}
ProbeYs == {0 - 1, 1, 3, 2 * MaxTextHeight}

indexAtPositionInDocument(ed) ==
    \A x \in ProbeXs, y \in ProbeYs :
        indexAtPosition(ed, x, y) \in 0..sumSectionLengths(ed.sections)

WidthsAreMeasured ==
    \A k \in 1..Len(sections) :
        \A n \in 1..Len(sections[k].atoms) :
            sections[k].atoms[n].width
                = atomWidth(sections[k], sections[k].atoms[n], passwordCharacter)

\* ------------------------------------------------------------------------
\* The character count of an atom
\* ------------------------------------------------------------------------
\* a word of n characters
longWord(n) == [k \in 1..n |-> "a"]

\* the lengths of words around the greatest number a uint16 holds
LongLengths == {UInt16Mod - 1, UInt16Mod}

countsAreLengths(ed) ==
    /\ \A k \in 1..Len(ed.sections) :
          \A n \in 1..Len(ed.sections[k].atoms) :
              ed.sections[k].atoms[n].numChars = Len(ed.sections[k].atoms[n].atomText)
    /\ totalNumCharsValue(ed) = Len(getText(ed))

\* C33: the character count stored with each atom is the number of
\* characters of its text, so that getTotalNumChars() is the length of
\* getText(), also after a word of 65536 characters or more is inserted.
NumCharsIsLength ==
    /\ countsAreLengths(Ed)
    /\ \A n \in LongLengths :
          countsAreLengths(insert(Ed, longWord(n), 0, currentFont, textColour, FALSE, 0))


\* ------------------------------------------------------------------------
\* Replacing a selection and undoing it
\* ------------------------------------------------------------------------
\* the editor after the first character was selected and replaced by "b" in
\* one insertTextAtCaret call
replacedFirst(ed) == insertTextAtCaret(setHighlightedRegion(ed, Range(0, 1)), <<"b">>)

\* one undo() after the replacement undoes both of its halves: the text is
\* the one from before the call, or, where the call was recorded in the
\* transaction that was open, the one from before that transaction
undoneInOne(ed) ==
    getText(undo(replacedFirst(ed)).ed) \in {getText(ed), getText(undo(ed).ed)}

\* C34: a selection replaced by one insertTextAtCaret call is one undo unit:
\* a single undo() takes back the removal and the insertion together,
\* whatever the number of actions in the open transaction
ReplacementIsOneUndoUnit ==
    sumSectionLengths(sections) > 0 => undoneInOne(Ed)


\* ------------------------------------------------------------------------
\* Lines that are left empty
\* ------------------------------------------------------------------------
\* the height of the tallest line of the editor: that of its tallest font
tallestLine(ed) ==
    greatest({getHeight(ed.currentFont)}
                \cup {getHeight(ed.sections[k].font) : k \in 1..Len(ed.sections)})

\* from each of the placements to the one after it lineY goes on by no more
\* than one line step, whatever the height of the line that is left
oneLineStepAtMost(ed, its) ==
    \A n \in 1..(Len(its) - 1) :
        its[n + 1].lineY - its[n].lineY <= tallestLine(ed) * lineSpacing

\* C35: between two consecutive placements of next() lineY advances by at
\* most one line step: wrapping and the look-ahead into the next sections
\* leave no line empty.
LinesAdvanceOneStep == oneLineStepAtMost(Ed, shown(Ed, Iterator(Ed)))


\* ------------------------------------------------------------------------
\* The iterator at the end of the text
\* ------------------------------------------------------------------------
\* next() on an iterator that has come to the end reports the end again and
\* leaves the position where it is
staysAtEnd(ed, end) ==
    /\ ~ next(ed, end).ret
    /\ next(ed, end).it.lineY = end.lineY
    /\ next(ed, end).it.atomX = end.atomX
    /\ next(ed, end).it.atomRight = end.atomRight
    /\ next(ed, end).it.indexInText = end.indexInText

\* C36: once next() has returned false, a further call returns false and
\* leaves lineY, atomX, atomRight and indexInText unchanged, also when the
\* last atom is a newline.
ExhaustedIteratorStays == staysAtEnd(Ed, moveToEnd(Ed, Iterator(Ed)))


\* ------------------------------------------------------------------------
\* Runs after the whole text was restyled
\* ------------------------------------------------------------------------
\* C37: after every operation no two adjacent runs have the same font and
\* the same colour, and a document of which applyColourToAllText or
\* applyFontToAllText has given every run the same style is one run at most.
NoEqualNeighbours ==
    /\ maximalRuns(sections)
    /\ \A f \in Fonts : Len(applyFontToAllText(Ed, f, TRUE).sections) <= 1
    /\ \A f \in Fonts, c \in Colours :
           Len(applyColourToAllText(applyFontToAllText(Ed, f, TRUE), c).sections) <= 1


\* ------------------------------------------------------------------------
\* The input restriction
\* ------------------------------------------------------------------------
\* an input restriction with a maximum length is installed and the document
\* is within it
withinRestriction(filter, secs) ==
    /\ filter # <<>>
    /\ filter[1].maxLength > 0
    /\ sumSectionLengths(secs) <= filter[1].maxLength

\* C38: with an input restriction of a maximum length installed and the
\* document within it, every step of insertTextAtCaret, paste, a key, cut,
\* deleteBackwards, deleteForwards, undo and redo leaves the document within
\* the maximum length.
RestrictionKeepsLength ==
    [][(withinRestriction(inputFilter, sections) /\ inputFilter' = inputFilter)
           => withinRestriction(inputFilter', sections')]_vars


\* ------------------------------------------------------------------------
\* Masked text and the clipboard
\* ------------------------------------------------------------------------
\* C39: while a password character is set, copy, copyToClipboard and
\* cutToClipboard leave the system clipboard as it is, whatever the document
\* and the selection, and cutToClipboard still removes the selected text.
MaskedTextStaysOffClipboard ==
    passwordCharacter # NUL =>
        /\ copy(Ed).clipboard = clipboard
        /\ copyToClipboard(Ed).clipboard = clipboard
        /\ cutToClipboard(Ed).clipboard = clipboard
        /\ getText(cutToClipboard(Ed)) = cutOut(getText(Ed), selection.start, selection.end)

\* cutToClipboard has removed the selected text of a masked document, and the
\* clipboard still holds the other text that was copied before the mask was
\* set
MaskedTextCut ==
    /\ lastOp.op = "cutToClipboard"
    /\ passwordCharacter # NUL
    /\ sections = <<>>
    /\ umCanUndo(Ed)
    /\ transactions[nextIndex][Len(transactions[nextIndex])].type = "Remove"
    /\ clipboard # <<>>
    /\ clipboard # concatSectionText(
                       transactions[nextIndex][Len(transactions[nextIndex])].removedSections)

============================================================================
